---- MODULE Spec2Model ----
(***************************************************************************)
(* Model of the price store of supermarket_scraper:                        *)
(*   database/init_db.py             the SQLite schema                      *)
(*   database/database_db_manager.py DatabaseManager (ingestion, search,    *)
(*                                   groups, favourites, statistics)        *)
(*   database/db_manager.py          the earlier DatabaseManager, still     *)
(*                                   used by dashboard/pages/comparador.py  *)
(*   matching/product_matcher.py     ProductMatcher                         *)
(*                                                                         *)
(* Text is a sequence of one-character strings, so that strip(), LIKE and   *)
(* float() are computed character by character.  A cell of the DataFrame    *)
(* is a tagged record: None, NaN (pandas' missing value), a str or a number.*)
(* Prices are integers (cents).  A timestamp is [dia, hora]: dia is the     *)
(* calendar day (the first ten characters of isoformat()), hora the time    *)
(* of day.                                                                  *)
(***************************************************************************)
EXTENDS Integers, Sequences, FiniteSets, TLC

VARIABLES
    productos,      \* table productos: a set of rows
    precios,        \* table precios: a set of rows
    seq_productos,  \* sqlite_sequence of productos (AUTOINCREMENT)
    dia,            \* calendar day of datetime.now()
    llamadas,       \* guardar_productos calls made so far; the time of day
    llamada,        \* the last public call and its arguments (or the loss of the connection since)
    antes,          \* the tables as they were when the last call began
    resumen,        \* the summary returned by the last guardar_productos
    filas,          \* the rows returned by the last buscar_productos
    veces,          \* how many guardar_productos calls in a row got the DataFrame of the last one
    dias_ingesta,   \* the days of those calls
    dia_previa,     \* the day of the guardar_productos call before the last one (0: none)
    busquedas,      \* buscar_productos calls made so far
    equivalencias,  \* table equivalencias: its rows in rowid order
    favoritos,      \* table favoritos: its rows in rowid order
    args,           \* the arguments of the last group, matcher, favourite or report call
    retorno,        \* what that call returned
    error,          \* the exception that call let escape ("": none)
    previo,         \* equivalencias and favoritos as they were when that call began
    ops,            \* group, matcher, favourite and report calls made so far
    runs,           \* the guardar_productos run of each of two connections: its position and locals
    escritor,       \* the connection that holds the write lock of the database file ("": none)
    transaccion,    \* the tables as the open write transaction sees them
    conexion        \* self._conn of one DatabaseManager, and the connections its last call used

vars == <<productos, precios, seq_productos, dia, llamadas, llamada, antes, resumen, filas,
          veces, dias_ingesta, dia_previa, busquedas,
          equivalencias, favoritos, args, retorno, error, previo, ops,
          runs, escritor, transaccion, conexion>>

\* the state of the two concurrent ingestion runs
concurrencia == <<runs, escritor, transaccion>>

\* the state of the groups, favourites and their calls
otros == <<equivalencias, favoritos, args, retorno, error, previo, ops>>

(* ---------------------------- bounds ----------------------------------- *)

\* longest DataFrame handed to guardar_productos
MaxBatch == 2
\* number of guardar_productos calls in one behaviour
MaxCalls == 2
\* number of calendar days the clock runs through
MaxDay == 2
\* largest limite passed to buscar_productos
MaxLimite == 2
\* number of group calls in one behaviour
MaxGrupos == 3
\* longest list of product ids handed to crear_equivalencia
MaxLista == 2
\* number of favourite calls in one behaviour
MaxFavoritos == 3
\* number of report calls in one behaviour
MaxInformes == 2
\* number of matcher calls in one behaviour
MaxMatcher == 2
\* number of favourite and group calls next to the re-sightings of a catalogue
MaxReferencias == 2
\* number of times the connection of a manager is closed or lost
MaxCierres == 2
\* number of buscar_productos calls in one behaviour
MaxBusquedas == 1

(* ---------------------------- Python values ---------------------------- *)

PyNone == [t |-> "none", s |-> <<>>, n |-> 0]

PyNaN == [t |-> "nan", s |-> <<>>, n |-> 0]

PyStr(s) == [t |-> "str", s |-> s, n |-> 0]

PyNum(n) == [t |-> "num", s |-> <<>>, n |-> n]

\* bool(v): None, "" and 0 are falsy; NaN is truthy
Truthy(v) ==
    CASE v.t = "none" -> FALSE
      [] v.t = "nan"  -> TRUE
      [] v.t = "str"  -> v.s # <<>>
      [] OTHER        -> v.n # 0

Digits == <<"0", "1", "2", "3", "4", "5", "6", "7", "8", "9">>

IsDigit(c) == \E i \in 1..10 : Digits[i] = c

DigitVal(c) == (CHOOSE i \in 1..10 : Digits[i] = c) - 1

RECURSIVE NatStr(_)
\* str(n) of a natural number
NatStr(n) == IF n < 10 THEN <<Digits[n + 1]>> ELSE NatStr(n \div 10) \o <<Digits[(n % 10) + 1]>>

\* str(v)
Str(v) ==
    CASE v.t = "none" -> <<"N", "o", "n", "e">>
      [] v.t = "nan"  -> <<"n", "a", "n">>
      [] v.t = "str"  -> v.s
      [] OTHER        -> IF v.n < 0 THEN <<"-">> \o NatStr(0 - v.n) ELSE NatStr(v.n)

IsSpace(c) == c = " "

RECURSIVE LStrip(_)
LStrip(s) == IF s # <<>> /\ IsSpace(Head(s)) THEN LStrip(Tail(s)) ELSE s

RECURSIVE RStrip(_)
RStrip(s) == IF s # <<>> /\ IsSpace(s[Len(s)]) THEN RStrip(SubSeq(s, 1, Len(s) - 1)) ELSE s

\* str.strip()
Strip(s) == RStrip(LStrip(s))

\* str(row.get(col) or "").strip()
Campo(v) == Strip(IF Truthy(v) THEN Str(v) ELSE <<>>)

RECURSIVE DigitsVal(_)
DigitsVal(s) == IF s = <<>> THEN 0 ELSE DigitsVal(SubSeq(s, 1, Len(s) - 1)) * 10 + DigitVal(s[Len(s)])

\* float(v): [ok, nan, n]; ok = FALSE stands for ValueError / TypeError
Float(v) ==
    CASE v.t = "none" -> [ok |-> FALSE, nan |-> FALSE, n |-> 0]
      [] v.t = "nan"  -> [ok |-> TRUE, nan |-> TRUE, n |-> 0]
      [] v.t = "num"  -> [ok |-> TRUE, nan |-> FALSE, n |-> v.n]
      [] OTHER        ->
            LET s == Strip(v.s)
                neg == s # <<>> /\ Head(s) = "-"
                d == IF neg THEN Tail(s) ELSE s
            IN  IF s = <<"n", "a", "n">>
                THEN [ok |-> TRUE, nan |-> TRUE, n |-> 0]
                ELSE IF d # <<>> /\ \A i \in 1..Len(d) : IsDigit(d[i])
                     THEN [ok |-> TRUE, nan |-> FALSE, n |-> IF neg THEN 0 - DigitsVal(d) ELSE DigitsVal(d)]
                     ELSE [ok |-> FALSE, nan |-> FALSE, n |-> 0]

(* ---------------------------- inputs ----------------------------------- *)

Texto(str) ==
    CASE str = ""     -> <<>>
      [] str = " "    -> <<" ">>
      [] str = "1"    -> <<"1">>
      [] str = " 1 "  -> <<" ", "1", " ">>
      [] str = "2"    -> <<"2">>
      [] str = "3"    -> <<"3">>
      [] str = "M"    -> <<"M">>
      [] str = "C"    -> <<"C">>
      [] str = "D"    -> <<"D">>
      [] str = "A"    -> <<"A">>
      [] str = "E"    -> <<"E">>
      [] str = "L"    -> <<"L">>
      [] str = "N"    -> <<"N">>
      [] str = "a"    -> <<"a">>
      [] str = "b a"  -> <<"b", " ", "a">>
      [] str = "a b"  -> <<"a", " ", "b">>
      [] str = "az"   -> <<"a", "z">>
      [] str = "aa"   -> <<"a", "a">>
      [] str = "La"   -> <<"L", "a">>
      [] str = "la b" -> <<"l", "a", " ", "b">>
      [] str = "b"    -> <<"b">>
      [] str = "l"    -> <<"l">>
      [] str = "z"    -> <<"z">>
      [] str = "ab"   -> <<"a", "b">>

Fila(id, nombre, super, precio) == [Id |-> id, Nombre |-> nombre, Supermercado |-> super, Precio |-> precio]

\* a row with the descriptive columns of the scrapers
Ficha(id, nombre, super, precio, precio_unidad, categoria, formato, url, url_imagen) ==
    [Id |-> id, Nombre |-> nombre, Supermercado |-> super, Precio |-> precio,
     Precio_unidad |-> precio_unidad, Categoria |-> categoria, Formato |-> formato,
     URL |-> url, URL_imagen |-> url_imagen]

\* rows a scraper delivers: the same product re-sighted with another name and
\* price, the same native id at two retailers, an id that needs strip()
FilasValidas ==
    { Fila(PyStr(Texto("1")), PyStr(Texto("La")), PyStr(Texto("M")), PyNum(2)),
      Fila(PyStr(Texto(" 1 ")), PyStr(Texto("la b")), PyStr(Texto("M")), PyStr(Texto("1"))),
      Fila(PyStr(Texto("1")), PyStr(Texto("la b")), PyStr(Texto("C")), PyNum(1)),
      Fila(PyStr(Texto("2")), PyStr(Texto("b")), PyStr(Texto("M")), PyNum(2)) }

\* rows with one defective cell: a missing Id, a Precio that is not a number,
\* a Precio of zero, a missing Precio (NaN after read_csv)
FilasInvalidas ==
    { Fila(PyNone, PyStr(Texto("La")), PyStr(Texto("M")), PyNum(2)),
      Fila(PyStr(Texto("1")), PyStr(Texto("b")), PyStr(Texto("C")), PyStr(Texto("ab"))),
      Fila(PyStr(Texto("1")), PyStr(Texto("b")), PyStr(Texto("M")), PyNum(0)),
      Fila(PyStr(Texto("2")), PyStr(Texto("La")), PyStr(Texto("C")), PyNaN) }

Filas == FilasValidas \cup FilasInvalidas

\* the DataFrames: every sequence of at most MaxBatch rows
DataFrames == UNION { [1..k -> Filas] : k \in 0..MaxBatch }

\* the DataFrames of well-formed rows
DataFramesValidos == UNION { [1..k -> FilasValidas] : k \in 0..MaxBatch }

\* the catalogue with its descriptive columns: a product, the same product
\* re-sighted with other descriptions, a product of another retailer
DataFramesFichas ==
    LET f1 == Ficha(PyStr(Texto("1")), PyStr(Texto("La")), PyStr(Texto("M")), PyNum(2), PyNone,
                    PyStr(Texto("a")), PyStr(Texto("1")), PyStr(Texto("b")), PyStr(Texto("z")))
        f2 == Ficha(PyStr(Texto(" 1 ")), PyStr(Texto("la b")), PyStr(Texto("M")), PyStr(Texto("1")), PyNum(1),
                    PyStr(Texto("b")), PyNone, PyStr(Texto("")), PyStr(Texto("a")))
        f3 == Ficha(PyStr(Texto("1")), PyStr(Texto("la b")), PyStr(Texto("C")), PyNum(1), PyNum(1),
                    PyStr(Texto("a")), PyStr(Texto("2")), PyStr(Texto("z")), PyStr(Texto("")))
    IN  { <<f2>>, <<f2, f1>>, <<f1, f3, f2>> }

(* ---------------------------- storage ---------------------------------- *)

\* the isoformat() timestamp taken at the start of a call
Ahora == [dia |-> dia, hora |-> llamadas]

\* ts[:10]
FechaHoy(ts) == ts.dia

\* fecha_captura LIKE '<fecha_hoy>', without the wildcard: no timestamp is a bare date
FechaLikeSinComodin(fecha, fecha_hoy) == FALSE

\* fecha_captura LIKE '<fecha_hoy>%'
FechaLike(fecha, fecha_hoy) == fecha.dia = fecha_hoy

\* row.get(col): None when the DataFrame has no such column
Get(row, col) == IF col \in DOMAIN row THEN row[col] ELSE PyNone

\* the row that the INSERT of guardar_productos writes
FilaProducto(id, id_externo, nombre, supermercado, categoria, formato, url, url_imagen, ts) ==
    [id |-> id, id_externo |-> id_externo, nombre |-> nombre, supermercado |-> supermercado,
     categoria |-> categoria, formato |-> formato, url |-> url, url_imagen |-> url_imagen,
     fecha_creacion |-> ts, fecha_actualizacion |-> ts]

\* INSERT INTO productos ... without the ON CONFLICT clause
UpsertSinConflicto(prods, seq, id_externo, nombre, supermercado, categoria, formato, url, url_imagen, ts) ==
    [productos |-> prods \cup {FilaProducto(seq + 1, id_externo, nombre, supermercado,
                                            categoria, formato, url, url_imagen, ts)},
     seq |-> seq + 1, rowcount |-> 1]

\* INSERT OR REPLACE INTO productos: the row in conflict is deleted and a new
\* row, with a new id, is inserted
UpsertReemplazar(prods, seq, id_externo, nombre, supermercado, categoria, formato, url, url_imagen, ts) ==
    LET conflicto == {p \in prods : p.id_externo = id_externo /\ p.supermercado = supermercado}
    IN  [productos |-> (prods \ conflicto) \cup
                          {FilaProducto(seq + 1, id_externo, nombre, supermercado,
                                        categoria, formato, url, url_imagen, ts)},
         seq |-> seq + 1, rowcount |-> 1]

\* INSERT INTO productos ... ON CONFLICT(id_externo, supermercado) DO UPDATE.
\* The AUTOINCREMENT table takes a new rowid for every attempt, and
\* sqlite3_changes() is 1 on both branches.
Upsert(prods, seq, id_externo, nombre, supermercado, categoria, formato, url, url_imagen, ts) ==
    LET conflicto == {p \in prods : p.id_externo = id_externo /\ p.supermercado = supermercado}
    IN  IF conflicto = {}
        THEN [productos |-> prods \cup {FilaProducto(seq + 1, id_externo, nombre, supermercado,
                                                     categoria, formato, url, url_imagen, ts)},
              seq |-> seq + 1, rowcount |-> 1]
        ELSE [productos |-> (prods \ conflicto) \cup
                                {[p EXCEPT !.nombre = nombre, !.categoria = categoria,
                                           !.formato = formato, !.url = url,
                                           !.url_imagen = url_imagen,
                                           !.fecha_actualizacion = ts] : p \in conflicto},
              seq |-> seq + 1, rowcount |-> 1]

\* SELECT COUNT(*) FROM precios   (obtener_estadisticas: total_registros_precios)
TotalRegistrosPrecios(precs) == Cardinality(precs)

\* SELECT id FROM productos WHERE id_externo = ? AND supermercado = ?
SelectId(prods, id_externo, supermercado) ==
    (CHOOSE p \in prods : p.id_externo = id_externo /\ p.supermercado = supermercado).id

\* the existence check that never finds a row
HayPrecioHoyNunca(precs, prod_id, fecha_hoy) == FALSE

\* the existence check without the date condition
HayPrecioAlgunDia(precs, prod_id, fecha_hoy) == \E r \in precs : r.producto_id = prod_id

\* SELECT id FROM precios WHERE producto_id = ? AND fecha_captura LIKE ?
HayPrecioHoy(precs, prod_id, fecha_hoy) ==
    \E r \in precs : r.producto_id = prod_id /\ FechaLike(r.fecha_captura, fecha_hoy)

\* the new row of precios takes the place of the product's earlier rows
InsertPrecioReemplazando(precs, producto_id, precio, precio_por_unidad, fecha_captura) ==
    {r \in precs : r.producto_id # producto_id}
        \cup {[id |-> Cardinality(precs) + 1, producto_id |-> producto_id, precio |-> precio,
               precio_por_unidad |-> precio_por_unidad, fecha_captura |-> fecha_captura]}

\* INSERT INTO precios (producto_id, precio, precio_por_unidad, fecha_captura) VALUES (?, ?, ?, ?)
InsertPrecio(precs, producto_id, precio, precio_por_unidad, fecha_captura) ==
    precs \cup {[id |-> Cardinality(precs) + 1, producto_id |-> producto_id, precio |-> precio,
                 precio_por_unidad |-> precio_por_unidad, fecha_captura |-> fecha_captura]}

\* if precio < 0: continue
PrecioRechazadoNegativo(precio) == precio.n < 0

\* if precio <= 0: continue   (every comparison with NaN is False)
PrecioRechazado(precio) == ~precio.nan /\ precio.n <= 0

\* the body of the for loop of guardar_productos, on the state st of the call
ProcesarFila(st, row, ts) ==
    LET id_externo == Campo(row.Id)
        nombre == Campo(row.Nombre)
        supermercado == Campo(row.Supermercado)
        precio == Float(row.Precio)
    IN  IF id_externo = <<>> \/ nombre = <<>> \/ supermercado = <<>>
        THEN st
        ELSE IF ~precio.ok
        THEN st
        ELSE IF PrecioRechazado(precio)
        THEN st
        ELSE LET precio_por_unidad == Campo(Get(row, "Precio_unidad"))
                 categoria == Campo(Get(row, "Categoria"))
                 formato == Campo(Get(row, "Formato"))
                 url == Campo(Get(row, "URL"))
                 url_imagen == Campo(Get(row, "URL_imagen"))
                 u == Upsert(st.productos, st.seq, id_externo, nombre, supermercado,
                             categoria, formato, url, url_imagen, ts)
                 nuevos == st.nuevos + (IF u.rowcount > 0 THEN 1 ELSE 0)
                 prod_id == SelectId(u.productos, id_externo, supermercado)
                 st1 == [st EXCEPT !.productos = u.productos, !.seq = u.seq, !.nuevos = nuevos]
             IN  IF ~HayPrecioHoy(st.precios, prod_id, FechaHoy(ts))
                 THEN IF precio.nan
                      \* NaN is bound as NULL: precios.precio is NOT NULL, the
                      \* IntegrityError is swallowed by the except of the loop
                      THEN st1
                      ELSE [st1 EXCEPT !.precios = InsertPrecio(st.precios, prod_id, precio.n,
                                                                 precio_por_unidad, ts),
                                       !.precios_ok = @ + 1]
                 ELSE [st1 EXCEPT !.actualizados = @ + 1]

RECURSIVE Iterar(_, _, _)
\* for _, row in df.iterrows()
Iterar(st, df, ts) ==
    IF df = <<>> THEN st ELSE Iterar(ProcesarFila(st, Head(df), ts), Tail(df), ts)

\* guardar_productos(df) at time ts on the store (prods, precs, seq)
Guardar(prods, precs, seq, df, ts) ==
    Iterar([productos |-> prods, precios |-> precs, seq |-> seq,
            nuevos |-> 0, actualizados |-> 0, precios_ok |-> 0], df, ts)

(* ---------------------------- search ----------------------------------- *)

\* the characters of the model in the order of SQLite's BINARY collation
Alfabeto == <<" ", "%", "-", "0", "1", "2", "3", "4", "5", "6", "7", "8", "9",
              "A", "C", "D", "E", "L", "M", "N", "_", "a", "b", "e", "l", "n", "o", "z">>

Codigo(c) == CHOOSE i \in 1..Len(Alfabeto) : Alfabeto[i] = c

\* LIKE folds the case of ASCII letters
Minuscula(c) ==
    CASE c = "A" -> "a"
      [] c = "C" -> "c"
      [] c = "D" -> "d"
      [] c = "E" -> "e"
      [] c = "L" -> "l"
      [] c = "M" -> "m"
      [] c = "N" -> "n"
      [] OTHER   -> c

RECURSIVE Like(_, _)
\* s LIKE pat: % matches any run of characters, _ any one character
Like(s, pat) ==
    IF pat = <<>> THEN s = <<>>
    ELSE IF Head(pat) = "%" THEN Like(s, Tail(pat)) \/ (s # <<>> /\ Like(Tail(s), pat))
    ELSE /\ s # <<>>
         /\ (Head(pat) = "_" \/ Minuscula(Head(pat)) = Minuscula(Head(s)))
         /\ Like(Tail(s), Tail(pat))

RECURSIVE TextoMenor(_, _)
\* a < b for TEXT values
TextoMenor(a, b) ==
    IF b = <<>> THEN FALSE
    ELSE IF a = <<>> THEN TRUE
    ELSE IF Head(a) # Head(b) THEN Codigo(Head(a)) < Codigo(Head(b))
    ELSE TextoMenor(Tail(a), Tail(b))

\* a < b for the timestamps written by isoformat()
FechaMenor(a, b) == a.dia < b.dia \/ (a.dia = b.dia /\ a.hora < b.hora)

SqlNull == [null |-> TRUE, v |-> 0]

SqlVal(v) == [null |-> FALSE, v |-> v]

\* SELECT ... FROM precios WHERE producto_id = ? ORDER BY fecha_captura DESC LIMIT 1
UltimaFila(precs, prod_id) ==
    LET suyos == {r \in precs : r.producto_id = prod_id}
    IN  {r \in suyos : \A q \in suyos : q = r \/ FechaMenor(q.fecha_captura, r.fecha_captura)
                                          \/ (q.fecha_captura = r.fecha_captura /\ q.id > r.id)}

\* (SELECT precio FROM precios WHERE producto_id = p.id ORDER BY fecha_captura DESC LIMIT 1)
PrecioActual(precs, prod_id) ==
    IF UltimaFila(precs, prod_id) = {} THEN SqlNull
    ELSE SqlVal((CHOOSE r \in UltimaFila(precs, prod_id) : TRUE).precio)

\* ORDER BY nombre.  SQL leaves the order of rows of equal nombre open; SQLite
\* emits them in the order of the window's partitions (supermercado), then rowid
Antes(p, q) ==
    \/ TextoMenor(p.nombre, q.nombre)
    \/ /\ p.nombre = q.nombre
       /\ \/ TextoMenor(p.supermercado, q.supermercado)
          \/ (p.supermercado = q.supermercado /\ p.id < q.id)

RECURSIVE OrdenarPorNombre(_)
OrdenarPorNombre(ps) ==
    IF ps = {} THEN <<>>
    ELSE LET primero == CHOOSE p \in ps : \A q \in ps : q = p \/ Antes(p, q)
         IN  <<primero>> \o OrdenarPorNombre(ps \ {primero})

\* LIMIT n: a negative n is no limit
Limit(seq, n) == IF n < 0 \/ n >= Len(seq) THEN seq ELSE SubSeq(seq, 1, n)

\* ROW_NUMBER() OVER (PARTITION BY supermercado ORDER BY nombre)
RowNumber(ps, p) == 1 + Cardinality({q \in ps : q.supermercado = p.supermercado /\ Antes(q, p)})

Max(a, b) == IF a >= b THEN a ELSE b

Min(a, b) == IF a <= b THEN a ELSE b

\* limite_por_super = max(4, int(limite) // 5)
LimitePorSuper(limite) == Max(4, limite \div 5)

\* the columns of one result row
FilaResultado(precs, p) ==
    [id |-> p.id, retailer_id |-> p.id_externo, nombre |-> p.nombre,
     supermercado |-> p.supermercado, precio |-> PrecioActual(precs, p.id)]

\* a name filter that finds nothing when no text is given
FiltroNombreVacioNada(prods, nombre) ==
    IF Truthy(nombre) THEN {p \in prods : Like(p.nombre, <<"%">> \o Str(nombre) \o <<"%">>)} ELSE {}

\* WHERE 1=1 [AND p.nombre LIKE '%nombre%']
FiltroNombre(prods, nombre) ==
    IF Truthy(nombre) THEN {p \in prods : Like(p.nombre, <<"%">> \o Str(nombre) \o <<"%">>)} ELSE prods

\* the pre-fix query (FIX BUG 3): one global LIMIT over all retailers
BuscarLimiteGlobal(prods, precs, nombre, supermercado, limite) ==
    LET sel == IF Truthy(supermercado)
               THEN {p \in FiltroNombre(prods, nombre) : p.supermercado = Str(supermercado)}
               ELSE FiltroNombre(prods, nombre)
        orden == Limit(OrdenarPorNombre(sel), limite)
    IN  [i \in 1..Len(orden) |-> FilaResultado(precs, orden[i])]

\* buscar_productos(nombre, supermercado, limite)
Buscar(prods, precs, nombre, supermercado, limite) ==
    IF Truthy(supermercado)
    THEN LET sel == {p \in FiltroNombre(prods, nombre) : p.supermercado = Str(supermercado)}
             orden == Limit(OrdenarPorNombre(sel), limite)
         IN  [i \in 1..Len(orden) |-> FilaResultado(precs, orden[i])]
    ELSE LET limite_por_super == LimitePorSuper(limite)
             sub == FiltroNombre(prods, nombre)
             sel == {p \in sub : RowNumber(sub, p) <= limite_por_super}
             orden == OrdenarPorNombre(sel)
         IN  [i \in 1..Len(orden) |-> FilaResultado(precs, orden[i])]

\* the texts typed into a search box
Consultas == {PyNone, PyStr(Texto("")), PyStr(Texto(" ")), PyStr(Texto("l")), PyStr(Texto("z"))}

\* the retailer filter: none, or one of the retailers
Filtros == {PyNone, PyStr(Texto("M"))}

Limites == 1..MaxLimite

(* ---------------------------- groups ----------------------------------- *)

\* the catalogue of the group pages, one DataFrame per scraper: two products
\* of one retailer, one product of another
DataFramesGrupos ==
    { << Fila(PyStr(Texto("1")), PyStr(Texto("La")), PyStr(Texto("M")), PyNum(2)),
         Fila(PyStr(Texto("2")), PyStr(Texto("b")), PyStr(Texto("M")), PyNum(2)) >>,
      << Fila(PyStr(Texto("1")), PyStr(Texto("la b")), PyStr(Texto("C")), PyNum(1)) >> }

\* the names given to groups
NombresGrupo == {Texto("L"), Texto("N")}

\* the lists of internal ids of products of the catalogue
ListasIds(prods) == UNION { [1..k -> {p.id : p \in prods}] : k \in 0..MaxLista }

\* the two DatabaseManager classes of the repository
Gestores == {"database_db_manager", "db_manager"}

\* CREATE TABLE equivalencias (id, nombre_comun, producto_id)
ColumnasEquivalencias == {"id", "nombre_comun", "producto_id"}

\* the columns named by the INSERT of guardar_equivalencia
ColumnasGuardarEquivalencia ==
    {"nombre_comun", "producto_mercadona_id", "producto_carrefour_id",
     "producto_dia_id", "producto_alcampo_id", "producto_eroski_id"}

\* the retailers of ids_por_super, in the order of the dict of
\* obtener_equivalencias: Mercadona, Carrefour, Dia, Alcampo, Eroski (one
\* letter each here)
Cadenas == <<Texto("M"), Texto("C"), Texto("D"), Texto("A"), Texto("E")>>

\* dict.get(key): None when the key is missing
DictGet(d, k) == IF k \in DOMAIN d THEN SqlVal(d[k]) ELSE SqlNull

\* d[k] = v
DictSet(d, k, v) == [x \in (DOMAIN d) \cup {k} |-> IF x = k THEN v ELSE d[x]]

\* DatabaseManager.guardar_equivalencia(nombre_comun, ids_por_super): SQLite
\* prepares the INSERT against the table's columns; nothing catches the error
GuardarEquivalencia(equivs, nombre_comun, ids_por_super) ==
    IF ColumnasGuardarEquivalencia \subseteq ColumnasEquivalencias
    THEN [equivalencias |-> Append(equivs, [nombre_comun |-> nombre_comun,
                                            por_super |-> [i \in 1..Len(Cadenas) |->
                                                             DictGet(ids_por_super, Cadenas[i])]]),
          error |-> ""]
    ELSE [equivalencias |-> equivs, error |-> "OperationalError"]

RECURSIVE IdsPorSuper(_, _, _)
\* the loop of crear_equivalencia: ids_por_super[supermercado] = id_externo
IdsPorSuper(prods, lista_producto_ids, ids_por_super) ==
    IF lista_producto_ids = <<>> THEN ids_por_super
    ELSE LET row == {p \in prods : p.id = Head(lista_producto_ids)}
         IN  IdsPorSuper(prods, Tail(lista_producto_ids),
                         IF row = {} THEN ids_por_super
                         ELSE LET p == CHOOSE q \in row : TRUE
                              IN  DictSet(ids_por_super, p.supermercado, p.id_externo))

\* DatabaseManager.crear_equivalencia(nombre_comun, lista_producto_ids)
CrearEquivalencia(prods, equivs, nombre_comun, lista_producto_ids) ==
    LET ids_por_super == IdsPorSuper(prods, lista_producto_ids, <<>>)
    IN  IF DOMAIN ids_por_super # {}
        THEN GuardarEquivalencia(equivs, nombre_comun, ids_por_super)
        ELSE [equivalencias |-> equivs, error |-> ""]

\* SELECT * FROM equivalencias WHERE nombre_comun = ?   (the rows, in rowid order)
SelectEquivalencias(equivs, nombre_comun) ==
    SelectSeq(equivs, LAMBDA e : e.nombre_comun = nombre_comun)

\* one row of the result of obtener_equivalencias
FilaEquivalencia(precs, p) ==
    [id |-> p.id, nombre |-> p.nombre, supermercado |-> p.supermercado,
     precio |-> PrecioActual(precs, p.id)]

RECURSIVE ResultadosPorSuper(_, _, _, _)
\* the loop over ids_por_super of obtener_equivalencias, from retailer i on
ResultadosPorSuper(prods, precs, row, i) ==
    IF i > Len(Cadenas) THEN <<>>
    ELSE LET id_ext == row.por_super[i]
             r == {p \in prods : ~id_ext.null /\ id_ext.v # <<>>
                                   /\ p.id_externo = id_ext.v /\ p.supermercado = Cadenas[i]}
         IN  (IF r = {} THEN <<>> ELSE <<FilaEquivalencia(precs, CHOOSE p \in r : TRUE)>>)
             \o ResultadosPorSuper(prods, precs, row, i + 1)

\* DatabaseManager.obtener_equivalencias(nombre_comun): row["producto_mercadona_id"]
\* raises IndexError on a row without that column, and the except returns
\* the empty DataFrame
ObtenerEquivalencias(prods, precs, equivs, nombre_comun) ==
    LET rows == SelectEquivalencias(equivs, nombre_comun)
    IN  IF rows = <<>> THEN <<>>
        ELSE IF ~(ColumnasGuardarEquivalencia \subseteq ColumnasEquivalencias) THEN <<>>
        ELSE ResultadosPorSuper(prods, precs, Head(rows), 1)

\* SELECT ... FROM precios WHERE producto_id = ? ORDER BY fecha_captura ASC
RECURSIVE OrdenarPorFecha(_)
OrdenarPorFecha(rs) ==
    IF rs = {} THEN <<>>
    ELSE LET primero == CHOOSE r \in rs : \A q \in rs :
                            q = r \/ FechaMenor(r.fecha_captura, q.fecha_captura)
                                  \/ (r.fecha_captura = q.fecha_captura /\ r.id < q.id)
         IN  <<primero>> \o OrdenarPorFecha(rs \ {primero})

\* DatabaseManager.obtener_historico_precios(producto_id)
ObtenerHistoricoPrecios(precs, producto_id) ==
    LET orden == OrdenarPorFecha({r \in precs : r.producto_id = producto_id})
    IN  [i \in 1..Len(orden) |-> [fecha_captura |-> orden[i].fecha_captura,
                                   precio |-> SqlVal(orden[i].precio)]]

RECURSIVE ConcatHistoricos(_, _)
\* pd.concat of the history of every row of df, with the row's supermercado and nombre
ConcatHistoricos(precs, df) ==
    IF df = <<>> THEN <<>>
    ELSE LET hist == ObtenerHistoricoPrecios(precs, Head(df).id)
         IN  [i \in 1..Len(hist) |-> [fecha_captura |-> hist[i].fecha_captura,
                                      precio |-> hist[i].precio,
                                      supermercado |-> Head(df).supermercado,
                                      nombre |-> Head(df).nombre]]
             \o ConcatHistoricos(precs, Tail(df))

\* DatabaseManager.obtener_historico_equivalencia(nombre_comun)
ObtenerHistoricoEquivalencia(prods, precs, equivs, nombre_comun) ==
    ConcatHistoricos(precs, ObtenerEquivalencias(prods, precs, equivs, nombre_comun))

RECURSIVE OrdenarTextos(_)
\* ORDER BY nombre_comun
OrdenarTextos(ts) ==
    IF ts = {} THEN <<>>
    ELSE LET primero == CHOOSE t \in ts : \A u \in ts : u = t \/ TextoMenor(t, u)
         IN  <<primero>> \o OrdenarTextos(ts \ {primero})

\* listar_grupos_equivalencia(): SELECT DISTINCT nombre_comun ... ORDER BY nombre_comun
\* (both classes)
ListarGruposEquivalencia(equivs) ==
    OrdenarTextos({equivs[i].nombre_comun : i \in 1..Len(equivs)})

(* ---------------------------- groups, db_manager.py -------------------- *)

\* the UNIQUE constraints of equivalencias, besides its primary key: none
UnicosEquivalencias == {}

\* INSERT OR IGNORE: the row is dropped when it repeats the value of a UNIQUE
\* column of a row of the table
InsertOrIgnore(rows, row, unicos) ==
    IF \E i \in 1..Len(rows) : \E c \in unicos : rows[i][c] = row[c]
    THEN rows
    ELSE Append(rows, row)

RECURSIVE CrearEquivalenciaDbManager(_, _, _)
\* db_manager.DatabaseManager.crear_equivalencia(nombre_comun, lista_producto_ids)
CrearEquivalenciaDbManager(equivs, nombre_comun, lista_producto_ids) ==
    IF lista_producto_ids = <<>> THEN equivs
    ELSE CrearEquivalenciaDbManager(
             InsertOrIgnore(equivs, [nombre_comun |-> nombre_comun,
                                     producto_id |-> Head(lista_producto_ids)],
                            UnicosEquivalencias),
             nombre_comun, Tail(lista_producto_ids))

\* precios in rowid order
PreciosPorId(precs) ==
    LET n == Cardinality(precs)
    IN  [i \in 1..n |-> CHOOSE r \in precs : Cardinality({q \in precs : q.id < r.id}) = i - 1]

SqlNullFecha == [null |-> TRUE, v |-> [dia |-> 0, hora |-> 0]]

\* p <join> precios pr ON p.id = pr.producto_id: a row for every price of p;
\* a LEFT JOIN gives one row of NULLs when p has no price
JoinPrecios(precs, e, p, left) ==
    LET suyos == SelectSeq(PreciosPorId(precs), LAMBDA r : r.producto_id = p.id)
    IN  IF suyos = <<>>
        THEN IF left
             THEN <<[nombre_comun |-> e.nombre_comun, id |-> p.id, nombre |-> p.nombre,
                     supermercado |-> p.supermercado, precio |-> SqlNull,
                     fecha_captura |-> SqlNullFecha]>>
             ELSE <<>>
        ELSE [i \in 1..Len(suyos) |->
                 [nombre_comun |-> e.nombre_comun, id |-> p.id, nombre |-> p.nombre,
                  supermercado |-> p.supermercado, precio |-> SqlVal(suyos[i].precio),
                  fecha_captura |-> SqlVal(suyos[i].fecha_captura)]]

RECURSIVE JoinEquivalencias(_, _, _, _)
\* FROM equivalencias e INNER JOIN productos p ON e.producto_id = p.id <join> precios pr
JoinEquivalencias(prods, precs, es, left) ==
    IF es = <<>> THEN <<>>
    ELSE LET ps == {p \in prods : p.id = Head(es).producto_id}
         IN  (IF ps = {} THEN <<>> ELSE JoinPrecios(precs, Head(es), CHOOSE p \in ps : TRUE, left))
             \o JoinEquivalencias(prods, precs, Tail(es), left)

\* a < b for prices; NULL sorts first
PrecioMenor(a, b) == (a.null /\ ~b.null) \/ (~a.null /\ ~b.null /\ a.v < b.v)

\* the ORDER BY of a query of db_manager.py
FilaMenor(a, b, clave) ==
    IF clave = "precio" THEN PrecioMenor(a.precio, b.precio)
    ELSE FechaMenor(a.fecha_captura.v, b.fecha_captura.v)

RECURSIVE OrdenarEstable(_, _)
\* ORDER BY clave; rows of equal key keep their order
OrdenarEstable(rows, clave) ==
    IF rows = <<>> THEN <<>>
    ELSE LET i == CHOOSE k \in 1..Len(rows) :
                      /\ \A j \in 1..Len(rows) : ~FilaMenor(rows[j], rows[k], clave)
                      /\ \A j \in 1..(k - 1) : FilaMenor(rows[k], rows[j], clave)
         IN  <<rows[i]>> \o OrdenarEstable(SubSeq(rows, 1, i - 1) \o SubSeq(rows, i + 1, Len(rows)), clave)

\* db_manager.DatabaseManager.obtener_equivalencias(nombre_comun): the LEFT
\* JOIN with the latest capture date filters nothing
ObtenerEquivalenciasDbManager(prods, precs, equivs, nombre_comun) ==
    OrdenarEstable(JoinEquivalencias(prods, precs, SelectEquivalencias(equivs, nombre_comun),
                                     TRUE),
                   "precio")

\* db_manager.DatabaseManager.obtener_historico_equivalencia(nombre_comun)
ObtenerHistoricoEquivalenciaDbManager(prods, precs, equivs, nombre_comun) ==
    OrdenarEstable(JoinEquivalencias(prods, precs, SelectEquivalencias(equivs, nombre_comun),
                                     FALSE),
                   "fecha_captura")

(* ---------------------------- matcher ---------------------------------- *)

RECURSIVE Split(_, _)
\* str.split(): the runs of non-space characters of s; cur is the run being read
Split(s, cur) ==
    IF s = <<>> THEN (IF cur = <<>> THEN <<>> ELSE <<cur>>)
    ELSE IF IsSpace(Head(s)) THEN (IF cur = <<>> THEN <<>> ELSE <<cur>>) \o Split(Tail(s), <<>>)
    ELSE Split(Tail(s), Append(cur, Head(s)))

RECURSIVE Insertar(_, _)
\* t put into the sorted list of tokens
Insertar(t, lista) ==
    IF lista = <<>> THEN <<t>>
    ELSE IF TextoMenor(t, Head(lista)) THEN <<t>> \o lista
    ELSE <<Head(lista)>> \o Insertar(t, Tail(lista))

RECURSIVE Sorted(_)
\* sorted(tokens)
Sorted(tokens) == IF tokens = <<>> THEN <<>> ELSE Insertar(Head(tokens), Sorted(Tail(tokens)))

RECURSIVE Join(_)
\* " ".join(tokens)
Join(tokens) ==
    IF tokens = <<>> THEN <<>>
    ELSE IF Len(tokens) = 1 THEN Head(tokens)
    ELSE Head(tokens) \o <<" ">> \o Join(Tail(tokens))

RECURSIVE LCS(_, _)
\* length of the longest common subsequence
LCS(a, b) ==
    IF a = <<>> \/ b = <<>> THEN 0
    ELSE IF Head(a) = Head(b) THEN 1 + LCS(Tail(a), Tail(b))
    ELSE Max(LCS(Tail(a), b), LCS(a, Tail(b)))

\* fuzz.ratio(a, b): the normalised Indel similarity, 100 * 2 * LCS / (len(a) + len(b)),
\* kept as the fraction 100 * num / den
Ratio(a, b) ==
    IF Len(a) + Len(b) = 0 THEN [num |-> 1, den |-> 1]
    ELSE [num |-> 2 * LCS(a, b), den |-> Len(a) + Len(b)]

\* fuzz.token_sort_ratio(s1, s2)
TokenSortRatio(s1, s2) == Ratio(Join(Sorted(Split(s1, <<>>))), Join(Sorted(Split(s2, <<>>))))

\* score >= score_cutoff
AlcanzaSiempre(score, umbral) == TRUE

Alcanza(score, umbral) == 100 * score.num >= umbral * score.den

\* a < b for scores
ScoreMenor(a, b) == a.num * b.den < b.num * a.den

\* a = b for scores
ScoreIgual(a, b) == a.num * b.den = b.num * a.den

\* DatabaseManager.obtener_productos_con_precio_actual(): the products that
\* have a price, in rowid order; pd.DataFrame() without columns when there is none
ObtenerProductosConPrecioActual(prods, precs) ==
    LET con == {p \in prods : UltimaFila(precs, p.id) # {}}
        orden == [i \in 1..Cardinality(con) |->
                     CHOOSE p \in con : Cardinality({q \in con : q.id < p.id}) = i - 1]
    IN  [columnas |-> con # {},
         filas |-> [i \in 1..Len(orden) |-> FilaEquivalencia(precs, orden[i])]]

\* db_manager.DatabaseManager.obtener_productos_con_precio_actual(): ORDER BY p.nombre
\* (products of equal nombre in rowid order)
ObtenerProductosConPrecioActualDbManager(prods, precs) ==
    LET con == {p \in prods : UltimaFila(precs, p.id) # {}}
        antes_de(p) == {q \in con : TextoMenor(q.nombre, p.nombre)
                                      \/ (q.nombre = p.nombre /\ q.id < p.id)}
        orden == [i \in 1..Cardinality(con) |->
                     CHOOSE p \in con : Cardinality(antes_de(p)) = i - 1]
    IN  [columnas |-> TRUE,
         filas |-> [i \in 1..Len(orden) |-> FilaEquivalencia(precs, orden[i])]]

\* self.db.obtener_productos_con_precio_actual()
DfTodos(gestor, prods, precs) ==
    IF gestor = "database_db_manager"
    THEN ObtenerProductosConPrecioActual(prods, precs)
    ELSE ObtenerProductosConPrecioActualDbManager(prods, precs)

RECURSIVE Unique(_, _)
\* Series.unique(): the values in the order of their first appearance
Unique(valores, vistos) ==
    IF valores = <<>> THEN <<>>
    ELSE IF Head(valores) \in vistos THEN Unique(Tail(valores), vistos)
    ELSE <<Head(valores)>> \o Unique(Tail(valores), vistos \cup {Head(valores)})

\* the index of the last choice of the best score that reaches the cutoff
ExtractOneUltimo(query, choices, umbral) ==
    LET buenos == {i \in 1..Len(choices) : Alcanza(TokenSortRatio(query, choices[i]), umbral)}
    IN  IF buenos = {} THEN 0
        ELSE CHOOSE i \in buenos : \A j \in buenos :
                 \/ ScoreMenor(TokenSortRatio(query, choices[j]), TokenSortRatio(query, choices[i]))
                 \/ (ScoreIgual(TokenSortRatio(query, choices[j]), TokenSortRatio(query, choices[i]))
                     /\ i >= j)

\* process.extractOne(query, choices, scorer=fuzz.token_sort_ratio, score_cutoff=umbral):
\* the index of the first choice of the best score that reaches the cutoff,
\* 0 when there is none
ExtractOne(query, choices, umbral) ==
    LET buenos == {i \in 1..Len(choices) : Alcanza(TokenSortRatio(query, choices[i]), umbral)}
    IN  IF buenos = {} THEN 0
        ELSE CHOOSE i \in buenos : \A j \in buenos :
                 \/ ScoreMenor(TokenSortRatio(query, choices[j]), TokenSortRatio(query, choices[i]))
                 \/ (ScoreIgual(TokenSortRatio(query, choices[j]), TokenSortRatio(query, choices[i]))
                     /\ i <= j)

\* df_todos[df_todos['supermercado'] == super]
DelSupermercado(filas_df, super) == SelectSeq(filas_df, LAMBDA r : r.supermercado = super)

\* every retailer is searched, the reference retailer too
OtrosSupermercadosTodos(supermercados) == supermercados

\* supermercados[1:]
OtrosSupermercados(supermercados) == Tail(supermercados)

RECURSIVE IdsEquivalentes(_, _, _, _, _)
\* the inner loop of auto_crear_equivalencias: the best match of nombre in
\* every other retailer, appended to ids_equivalentes
IdsEquivalentes(filas_df, otros_super, nombre, umbral, ids_equivalentes) ==
    IF otros_super = <<>> THEN ids_equivalentes
    ELSE LET df_otro == DelSupermercado(filas_df, Head(otros_super))
             nombres_otro == [i \in 1..Len(df_otro) |-> df_otro[i].nombre]
             idx == ExtractOne(nombre, nombres_otro, umbral)
         IN  IdsEquivalentes(filas_df, Tail(otros_super), nombre, umbral,
                             IF idx # 0 THEN Append(ids_equivalentes, df_otro[idx].id)
                             ELSE ids_equivalentes)

\* a crear_equivalencia that refuses a name that is a group already
DbCrearEquivalenciaUnaVez(gestor, prods, equivs, nombre_comun, ids) ==
    IF SelectEquivalencias(equivs, nombre_comun) # <<>>
    THEN [equivalencias |-> equivs, error |-> "IntegrityError"]
    ELSE IF gestor = "database_db_manager"
    THEN CrearEquivalencia(prods, equivs, nombre_comun, ids)
    ELSE [equivalencias |-> CrearEquivalenciaDbManager(equivs, nombre_comun, ids), error |-> ""]

\* self.db.crear_equivalencia(nombre, ids) of the manager the matcher was built with
DbCrearEquivalencia(gestor, prods, equivs, nombre_comun, ids) ==
    IF gestor = "database_db_manager"
    THEN CrearEquivalencia(prods, equivs, nombre_comun, ids)
    ELSE [equivalencias |-> CrearEquivalenciaDbManager(equivs, nombre_comun, ids), error |-> ""]

RECURSIVE IterarReferencia(_, _, _, _, _, _, _)
\* the outer loop of auto_crear_equivalencias over df_ref; an exception of
\* crear_equivalencia ends the call
IterarReferencia(st, gestor, prods, filas_df, df_ref, supermercados, umbral) ==
    IF df_ref = <<>> \/ st.error # "" THEN st
    ELSE LET producto == Head(df_ref)
             ids == IdsEquivalentes(filas_df, OtrosSupermercados(supermercados), producto.nombre,
                                    umbral, <<producto.id>>)
         IN  IF Len(ids) > 1
             THEN LET r == DbCrearEquivalencia(gestor, prods, st.equivalencias, producto.nombre, ids)
                      st1 == [st EXCEPT !.equivalencias = r.equivalencias, !.error = r.error,
                                        !.listas = Append(@, [nombre |-> producto.nombre, ids |-> ids])]
                  IN  IterarReferencia(IF r.error = "" THEN [st1 EXCEPT !.n = @ + 1] ELSE st1,
                                       gestor, prods, filas_df, Tail(df_ref), supermercados, umbral)
             ELSE IterarReferencia(st, gestor, prods, filas_df, Tail(df_ref), supermercados, umbral)

\* a DataFrame that never counts as empty
VacioNunca(df) == FALSE

\* df.empty
Vacio(df) == df.filas = <<>>

\* ProductMatcher.auto_crear_equivalencias(umbral) on a matcher built with gestor.
\* df_todos['supermercado'] raises KeyError on a DataFrame without columns.
AutoCrearEquivalencias(gestor, prods, precs, equivs, umbral) ==
    LET df_todos == DfTodos(gestor, prods, precs)
        st0 == [equivalencias |-> equivs, n |-> 0, error |-> "", listas |-> <<>>]
    IN  IF Vacio(df_todos) THEN st0
        ELSE IF ~df_todos.columnas THEN [st0 EXCEPT !.error = "KeyError"]
        ELSE LET supermercados == Unique([i \in 1..Len(df_todos.filas) |->
                                              df_todos.filas[i].supermercado], {})
             IN  IF Len(supermercados) < 2 THEN st0
                 ELSE IterarReferencia(st0, gestor, prods, df_todos.filas,
                                       DelSupermercado(df_todos.filas, supermercados[1]),
                                       supermercados, umbral)

\* process.extract(query, choices, scorer=fuzz.token_sort_ratio, limit=limite,
\* score_cutoff=umbral): the choices that reach the cutoff, best first (choices
\* of equal score in the order of choices), at most limite of them
Extract(query, choices, limite, umbral) ==
    LET buenos == {i \in 1..Len(choices) : Alcanza(TokenSortRatio(query, choices[i]), umbral)}
        mejor(i, j) == \/ ScoreMenor(TokenSortRatio(query, choices[j]), TokenSortRatio(query, choices[i]))
                       \/ (ScoreIgual(TokenSortRatio(query, choices[j]), TokenSortRatio(query, choices[i]))
                           /\ i < j)
        orden == [k \in 1..Cardinality(buenos) |->
                     CHOOSE i \in buenos : Cardinality({j \in buenos : mejor(j, i)}) = k - 1]
    IN  [k \in 1..Len(Limit(orden, limite)) |->
            [indice |-> orden[k], puntuacion |-> TokenSortRatio(query, choices[orden[k]])]]

\* ProductMatcher.buscar_equivalencias_auto(nombre_producto, umbral, limite) on a
\* matcher built with gestor.  df_todos['nombre'] raises KeyError on a DataFrame
\* without columns; sort_values orders by puntuacion, rows of equal score are
\* kept here in the order of extract.
BuscarEquivalenciasAuto(gestor, prods, precs, nombre_producto, umbral, limite) ==
    LET df_todos == DfTodos(gestor, prods, precs)
    IN  IF Vacio(df_todos) THEN [filas |-> <<>>, error |-> ""]
        ELSE IF ~df_todos.columnas THEN [filas |-> <<>>, error |-> "KeyError"]
        ELSE LET nombres == [i \in 1..Len(df_todos.filas) |-> df_todos.filas[i].nombre]
                 resultados == Extract(nombre_producto, nombres, limite, umbral)
             IN  [filas |-> [k \in 1..Len(resultados) |->
                                [id |-> df_todos.filas[resultados[k].indice].id,
                                 nombre |-> df_todos.filas[resultados[k].indice].nombre,
                                 supermercado |-> df_todos.filas[resultados[k].indice].supermercado,
                                 precio |-> df_todos.filas[resultados[k].indice].precio,
                                 puntuacion |-> resultados[k].puntuacion]],
                  error |-> ""]

\* the catalogue of the matcher: a product whose name is close to the names of
\* two products of other retailers that are unlike each other; two products
\* whose names hold the same words in another order
DataFramesMatcher ==
    { << Fila(PyStr(Texto("1")), PyStr(Texto("ab")), PyStr(Texto("M")), PyNum(2)),
         Fila(PyStr(Texto("1")), PyStr(Texto("az")), PyStr(Texto("C")), PyNum(1)),
         Fila(PyStr(Texto("1")), PyStr(Texto("b")), PyStr(Texto("D")), PyNum(1)) >>,
      << Fila(PyStr(Texto("2")), PyStr(Texto("b a")), PyStr(Texto("M")), PyNum(2)),
         Fila(PyStr(Texto("2")), PyStr(Texto("a b")), PyStr(Texto("C")), PyNum(1)) >>,
      << Fila(PyStr(Texto("2")), PyStr(Texto("b a")), PyStr(Texto("M")), PyNum(2)) >> }

\* the catalogue of the automatic detection: that of the matcher, and a second
\* product of a retailer whose name is as close to the name of the reference
\* product as that of the first
DataFramesAuto ==
    { << Fila(PyStr(Texto("1")), PyStr(Texto("ab")), PyStr(Texto("M")), PyNum(2)),
         Fila(PyStr(Texto("1")), PyStr(Texto("az")), PyStr(Texto("C")), PyNum(1)),
         Fila(PyStr(Texto("1")), PyStr(Texto("b")), PyStr(Texto("D")), PyNum(1)) >>,
      << Fila(PyStr(Texto("2")), PyStr(Texto("b a")), PyStr(Texto("M")), PyNum(2)),
         Fila(PyStr(Texto("2")), PyStr(Texto("a b")), PyStr(Texto("C")), PyNum(1)) >>,
      << Fila(PyStr(Texto("3")), PyStr(Texto("aa")), PyStr(Texto("C")), PyNum(1)) >> }

\* the thresholds of the similarity sliders
Umbrales == {50, 90}

\* the texts typed into the suggestion box
TextosMatcher == {Texto("ab"), Texto("z"), Texto("")}

(* ---------------------------- favourites ------------------------------- *)

\* CREATE TABLE favoritos (id, producto_id NOT NULL UNIQUE, fecha_creacion)
ColumnasFavoritos == {"id", "producto_id", "fecha_creacion"}

\* the UNIQUE constraints of favoritos, besides its primary key
UnicosFavoritos == {"producto_id"}

\* no UNIQUE constraint on favoritos
UnicosFavoritosNinguno == {}

\* the columns of favoritos that the query of obtener_favoritos reads
ColumnasObtenerFavoritos == {"producto_id", "fecha_agregado"}

\* DatabaseManager.agregar_favorito(producto_id): INSERT OR IGNORE.  The
\* connection has foreign_keys=ON: for an id that is no product the INSERT
\* raises IntegrityError, which the except swallows.
AgregarFavorito(prods, favs, producto_id, ts) ==
    IF \A p \in prods : p.id # producto_id THEN favs
    ELSE InsertOrIgnore(favs, [producto_id |-> producto_id, fecha_creacion |-> ts], UnicosFavoritos)

\* DatabaseManager.eliminar_favorito(producto_id): DELETE ... WHERE producto_id = ?
EliminarFavorito(favs, producto_id) == SelectSeq(favs, LAMBDA f : f.producto_id # producto_id)

RECURSIVE JoinFavoritos(_, _, _)
\* FROM favoritos f JOIN productos p ON p.id = f.producto_id LEFT JOIN (latest price)
JoinFavoritos(prods, precs, favs) ==
    IF favs = <<>> THEN <<>>
    ELSE LET ps == {p \in prods : p.id = Head(favs).producto_id}
         IN  (IF ps = {} THEN <<>>
              ELSE <<[id |-> Head(favs).producto_id, nombre |-> (CHOOSE p \in ps : TRUE).nombre,
                      supermercado |-> (CHOOSE p \in ps : TRUE).supermercado,
                      precio |-> PrecioActual(precs, Head(favs).producto_id),
                      fecha_captura |-> SqlVal(Head(favs).fecha_agregado)]>>)
             \o JoinFavoritos(prods, precs, Tail(favs))

\* ORDER BY f.fecha_agregado DESC
Reverse(seq) == [i \in 1..Len(seq) |-> seq[Len(seq) + 1 - i]]

\* DatabaseManager.obtener_favoritos(): SQLite prepares the SELECT against the
\* table's columns; the except returns the empty DataFrame
ObtenerFavoritos(prods, precs, favs) ==
    IF ColumnasObtenerFavoritos \subseteq ColumnasFavoritos
    THEN Reverse(OrdenarEstable(JoinFavoritos(prods, precs, favs), "fecha_captura"))
    ELSE <<>>

(* ---------------------------- statistics ------------------------------- *)

\* MIN(fecha_captura) that is never NULL
MinFechaCapturaSinNull(precs) ==
    IF precs = {} THEN SqlVal([dia |-> 0, hora |-> 0])
    ELSE SqlVal((CHOOSE r \in precs : \A q \in precs :
                     ~FechaMenor(q.fecha_captura, r.fecha_captura)).fecha_captura)

\* SELECT MIN(fecha_captura) FROM precios: NULL on an empty table
MinFechaCaptura(precs) ==
    IF precs = {} THEN SqlNullFecha
    ELSE SqlVal((CHOOSE r \in precs : \A q \in precs :
                     ~FechaMenor(q.fecha_captura, r.fecha_captura)).fecha_captura)

\* SELECT MAX(fecha_captura) FROM precios: NULL on an empty table
MaxFechaCaptura(precs) ==
    IF precs = {} THEN SqlNullFecha
    ELSE SqlVal((CHOOSE r \in precs : \A q \in precs :
                     ~FechaMenor(r.fecha_captura, q.fecha_captura)).fecha_captura)

\* SELECT supermercado, COUNT(*) FROM productos GROUP BY supermercado, as a dict
ProductosPorSupermercado(prods) ==
    [super \in {p.supermercado : p \in prods} |-> Cardinality({p \in prods : p.supermercado = super})]

\* DatabaseManager.obtener_estadisticas()
ObtenerEstadisticas(prods, precs, equivs) ==
    [total_productos |-> Cardinality(prods),
     total_registros_precios |-> TotalRegistrosPrecios(precs),
     total_supermercados |-> Cardinality({p.supermercado : p \in prods}),
     total_equivalencias |-> Len(equivs),
     productos_por_supermercado |-> ProductosPorSupermercado(prods),
     primera_captura |-> MinFechaCaptura(precs),
     ultima_captura |-> MaxFechaCaptura(precs)]

\* the dict of the except branch of obtener_estadisticas
SinEstadisticas ==
    [total_productos |-> 0, total_registros_precios |-> 0, total_supermercados |-> 0,
     total_equivalencias |-> 0, productos_por_supermercado |-> <<>>,
     primera_captura |-> SqlNullFecha, ultima_captura |-> SqlNullFecha]

SinResumen == [productos_nuevos |-> 0, productos_actualizados |-> 0, precios_registrados |-> 0]

SinLlamada == [op |-> "init", df |-> <<>>, ts |-> [dia |-> 1, hora |-> 0],
               nombre |-> PyNone, supermercado |-> PyNone, limite |-> 0]

\* no group, matcher, favourite or report call yet
SinArgs == [gestor |-> "", nombre |-> <<>>, ids |-> <<>>, umbral |-> 0, limite |-> 0, producto_id |-> 0]

SinRetorno == [filas |-> <<>>, nombres |-> <<>>, n |-> 0, listas |-> <<>>, stats |-> SinEstadisticas]

(* ---------------------------- latest price ----------------------------- *)

\* the public methods of the two DatabaseManager classes
Metodos(gestor) ==
    IF gestor = "database_db_manager"
    THEN {"cerrar", "guardar_productos", "obtener_estadisticas",
          "obtener_productos_con_precio_actual", "buscar_productos", "obtener_historico_precios",
          "listar_grupos_equivalencia", "obtener_equivalencias", "obtener_historico_equivalencia",
          "guardar_equivalencia", "crear_equivalencia", "agregar_favorito", "eliminar_favorito",
          "obtener_favoritos"}
    ELSE {"cerrar", "guardar_productos", "buscar_productos", "obtener_historico_precios",
          "obtener_ultimo_precio", "obtener_productos_con_precio_actual", "crear_equivalencia",
          "obtener_equivalencias", "obtener_historico_equivalencia", "listar_grupos_equivalencia",
          "agregar_favorito", "eliminar_favorito", "obtener_favoritos", "obtener_estadisticas"}

\* db.obtener_ultimo_precio(producto_id) on an object of the class gestor:
\* AttributeError when the class has no such method; db_manager.py selects
\* the row of the latest fecha_captura and returns None when there is none
ObtenerUltimoPrecio(gestor, precs, producto_id) ==
    IF "obtener_ultimo_precio" \in Metodos(gestor)
    THEN [precio |-> PrecioActual(precs, producto_id), error |-> ""]
    ELSE [precio |-> SqlNull, error |-> "AttributeError"]

(* ---------------------------- concurrent ingestion --------------------- *)

\* two DatabaseManager objects, each with its own connection to one database file
Conexiones == {"A", "B"}

\* the batches of two scrapers run side by side: products of one retailer
\* each, a product sighted twice in a batch, a row that fails validation
LotesDe(c) ==
    IF c = "A"
    THEN { << Fila(PyStr(Texto("1")), PyStr(Texto("La")), PyStr(Texto("M")), PyNum(2)),
              Fila(PyStr(Texto("2")), PyStr(Texto("b")), PyStr(Texto("M")), PyNum(2)) >>,
           << Fila(PyStr(Texto("1")), PyStr(Texto("b")), PyStr(Texto("M")), PyNum(0)),
              Fila(PyStr(Texto("1")), PyStr(Texto("La")), PyStr(Texto("M")), PyNum(2)) >> }
    ELSE { << Fila(PyStr(Texto("1")), PyStr(Texto("la b")), PyStr(Texto("C")), PyNum(1)) >>,
           << Fila(PyStr(Texto("1")), PyStr(Texto("la b")), PyStr(Texto("C")), PyNum(1)),
              Fila(PyStr(Texto("1")), PyStr(Texto("La")), PyStr(Texto("C")), PyNum(2)) >> }

\* os.path.abspath(db_path) of the manager
DbPath == "supermercados.db"

\* self._conn after __init__: the first connection (id), open on db_path; no
\* call has asked for a cursor or committed yet (0), nothing was closed
ConexionInicial ==
    [id |-> 1, estado |-> "abierta", ruta |-> DbPath, abiertas |-> 1, cierres |-> 0,
     cursor |-> 0, commit |-> 0]

\* _conectar(): self._conn is a new connection to self.db_path
Conectar(cx) ==
    [cx EXCEPT !.id = cx.abiertas + 1, !.abiertas = @ + 1, !.estado = "abierta", !.ruta = DbPath]

\* self._conn.execute("SELECT 1") raises on a closed or lost connection
ProbeFalla(cx) == cx.estado # "abierta"

\* a _cursor() that hands out a cursor of self._conn without the probe
CursorSinReconectar(cx) == [cx EXCEPT !.cursor = cx.id, !.commit = 0]

\* _cursor(): the probe, _conectar() when it fails, and a cursor of self._conn
Cursor(cx) ==
    LET c == IF ProbeFalla(cx) THEN Conectar(cx) ELSE cx
    IN  [c EXCEPT !.cursor = c.id, !.commit = 0]

\* self._conn.commit()
Commit(cx) == [cx EXCEPT !.commit = cx.id]

\* cerrar(): self._conn.close(); self._conn stays the closed connection
Cerrar(cx) == [cx EXCEPT !.estado = "cerrada", !.cierres = @ + 1]

\* the connection of self._conn stops answering
Perder(cx) == [cx EXCEPT !.estado = "perdida", !.cierres = @ + 1]

\* a connection that has not called guardar_productos
SinRun == [pc |-> "inicio", df |-> <<>>, i |-> 0, ts |-> [dia |-> 1, hora |-> 0],
           nuevos |-> 0, actualizados |-> 0, precios_ok |-> 0, expiradas |-> 0]

\* no write transaction is open
SinTransaccion == [productos |-> {}, precios |-> {}, seq |-> 0]

\* the row passes the checks at the head of the loop body and reaches the
\* first SQL statement
LlegaAlInsert(row) ==
    /\ Campo(row.Id) # <<>>
    /\ Campo(row.Nombre) # <<>>
    /\ Campo(row.Supermercado) # <<>>
    /\ Float(row.Precio).ok
    /\ ~PrecioRechazado(Float(row.Precio))

\* sqlite3.connect(..., timeout=5.0 by default): the INSERT that needs the
\* write lock held by another connection waits for it, and raises
\* OperationalError('database is locked') when the wait runs out
EsperaAgotada(quien, c) == quien \notin {"", c}

(* ---------------------------- the state machine ------------------------ *)

Init ==
    /\ productos = {}
    /\ precios = {}
    /\ seq_productos = 0
    /\ dia = 1
    /\ llamadas = 0
    /\ llamada = SinLlamada
    /\ antes = [productos |-> {}, precios |-> {}, seq |-> 0]
    /\ resumen = SinResumen
    /\ filas = <<>>
    /\ veces = 0
    /\ dias_ingesta = {}
    /\ dia_previa = 0
    /\ busquedas = 0
    /\ equivalencias = <<>>
    /\ favoritos = <<>>
    /\ args = SinArgs
    /\ retorno = SinRetorno
    /\ error = ""
    /\ previo = [equivalencias |-> <<>>, favoritos |-> <<>>]
    /\ ops = 0
    /\ runs = [c \in Conexiones |-> SinRun]
    /\ escritor = ""
    /\ transaccion = SinTransaccion
    /\ conexion = ConexionInicial

\* guardar_productos(df): the tables, the summary and the bookkeeping of the
\* call on one DataFrame
GuardarTablas(df) ==
    /\ llamadas < MaxCalls
    /\ LET ts == Ahora
           st == Guardar(productos, precios, seq_productos, df, ts)
       IN  /\ productos' = st.productos
           /\ precios' = st.precios
           /\ seq_productos' = st.seq
           /\ resumen' = [productos_nuevos |-> st.nuevos,
                          productos_actualizados |-> st.actualizados,
                          precios_registrados |-> st.precios_ok]
           /\ llamada' = [op |-> "guardar_productos", df |-> df, ts |-> ts,
                          nombre |-> PyNone, supermercado |-> PyNone, limite |-> 0]
    /\ veces' = IF llamada.op = "guardar_productos" /\ llamada.df = df THEN veces + 1 ELSE 1
    /\ dias_ingesta' = IF llamada.op = "guardar_productos" /\ llamada.df = df
                       THEN dias_ingesta \cup {dia} ELSE {dia}
    /\ dia_previa' = IF llamada.op = "guardar_productos" THEN llamada.ts.dia ELSE 0
    /\ antes' = [productos |-> productos, precios |-> precios, seq |-> seq_productos]
    /\ llamadas' = llamadas + 1
    /\ filas' = <<>>
    /\ UNCHANGED <<dia, busquedas>>
    /\ UNCHANGED otros
    /\ UNCHANGED concurrencia

\* guardar_productos(df) on the connection of the constructor, which nothing closes
GuardarDf(df) == GuardarTablas(df) /\ UNCHANGED conexion

\* DatabaseManager.guardar_productos(df), any DataFrame
guardar_productos == \E df \in DataFrames : GuardarDf(df)

\* DatabaseManager.guardar_productos(df), a DataFrame of well-formed rows
guardar_catalogo == \E df \in DataFramesValidos : GuardarDf(df)

\* midnight: the calendar day of datetime.now() changes
PasaDia ==
    /\ dia < MaxDay
    /\ dia' = dia + 1
    /\ UNCHANGED <<productos, precios, seq_productos, llamadas, llamada, antes, resumen, filas,
                   veces, dias_ingesta, dia_previa, busquedas>>
    /\ UNCHANGED otros
    /\ UNCHANGED concurrencia
    /\ UNCHANGED conexion

\* DatabaseManager.buscar_productos(nombre, supermercado, limite)
buscar_productos ==
    /\ busquedas < MaxBusquedas
    /\ busquedas' = busquedas + 1
    /\ \E nombre \in Consultas, supermercado \in Filtros, limite \in Limites :
          /\ filas' = Buscar(productos, precios, nombre, supermercado, limite)
          /\ llamada' = [op |-> "buscar_productos", df |-> <<>>, ts |-> Ahora,
                         nombre |-> nombre, supermercado |-> supermercado, limite |-> limite]
    /\ antes' = [productos |-> productos, precios |-> precios, seq |-> seq_productos]
    /\ resumen' = SinResumen
    /\ veces' = 0
    /\ dias_ingesta' = {}
    /\ dia_previa' = 0
    /\ UNCHANGED <<productos, precios, seq_productos, dia, llamadas>>
    /\ UNCHANGED otros
    /\ UNCHANGED concurrencia
    /\ UNCHANGED conexion

\* the bookkeeping of a group, matcher, favourite or report call op with
\* arguments a that returned ret or let the exception err escape
Anotar(op, a, ret, err) ==
    /\ ops' = ops + 1
    /\ llamada' = [SinLlamada EXCEPT !.op = op, !.ts = Ahora]
    /\ args' = a
    /\ retorno' = ret
    /\ error' = err
    /\ previo' = [equivalencias |-> equivalencias, favoritos |-> favoritos]
    /\ antes' = [productos |-> productos, precios |-> precios, seq |-> seq_productos]
    /\ resumen' = SinResumen
    /\ filas' = <<>>
    /\ veces' = 0
    /\ dias_ingesta' = {}
    /\ dia_previa' = 0
    /\ UNCHANGED <<productos, precios, seq_productos, dia, llamadas, busquedas>>
    /\ UNCHANGED concurrencia

\* such a call on the connection of the constructor, which nothing closes
Llamar(op, a, ret, err) == Anotar(op, a, ret, err) /\ UNCHANGED conexion

\* DatabaseManager.guardar_productos(df), the catalogue of the group pages
guardar_catalogo_grupos == \E df \in DataFramesGrupos : GuardarDf(df)

\* crear_equivalencia(nombre_comun, lista_producto_ids) of either class
crear_equivalencia ==
    /\ ops < MaxGrupos
    /\ \E gestor \in Gestores, nombre_comun \in NombresGrupo, ids \in ListasIds(productos) :
          LET r == IF gestor = "database_db_manager"
                   THEN CrearEquivalencia(productos, equivalencias, nombre_comun, ids)
                   ELSE [equivalencias |-> CrearEquivalenciaDbManager(equivalencias, nombre_comun, ids),
                         error |-> ""]
          IN  /\ equivalencias' = r.equivalencias
              /\ Llamar("crear_equivalencia",
                        [SinArgs EXCEPT !.gestor = gestor, !.nombre = nombre_comun, !.ids = ids],
                        SinRetorno, r.error)
    /\ UNCHANGED favoritos

\* obtener_equivalencias(nombre_comun) of either class
obtener_equivalencias ==
    /\ ops < MaxGrupos
    /\ \E gestor \in Gestores, nombre_comun \in NombresGrupo :
          Llamar("obtener_equivalencias",
                 [SinArgs EXCEPT !.gestor = gestor, !.nombre = nombre_comun],
                 [SinRetorno EXCEPT !.filas =
                     IF gestor = "database_db_manager"
                     THEN ObtenerEquivalencias(productos, precios, equivalencias, nombre_comun)
                     ELSE ObtenerEquivalenciasDbManager(productos, precios, equivalencias, nombre_comun)],
                 "")
    /\ UNCHANGED <<equivalencias, favoritos>>

\* obtener_historico_equivalencia(nombre_comun) of either class
obtener_historico_equivalencia ==
    /\ ops < MaxGrupos
    /\ \E gestor \in Gestores, nombre_comun \in NombresGrupo :
          Llamar("obtener_historico_equivalencia",
                 [SinArgs EXCEPT !.gestor = gestor, !.nombre = nombre_comun],
                 [SinRetorno EXCEPT !.filas =
                     IF gestor = "database_db_manager"
                     THEN ObtenerHistoricoEquivalencia(productos, precios, equivalencias, nombre_comun)
                     ELSE ObtenerHistoricoEquivalenciaDbManager(productos, precios, equivalencias,
                                                                nombre_comun)],
                 "")
    /\ UNCHANGED <<equivalencias, favoritos>>

\* listar_grupos_equivalencia() of either class
listar_grupos_equivalencia ==
    /\ ops < MaxGrupos
    /\ \E gestor \in Gestores :
          Llamar("listar_grupos_equivalencia", [SinArgs EXCEPT !.gestor = gestor],
                 [SinRetorno EXCEPT !.nombres = ListarGruposEquivalencia(equivalencias)], "")
    /\ UNCHANGED <<equivalencias, favoritos>>

\* DatabaseManager.guardar_productos(df), the catalogue of the matcher
guardar_catalogo_matcher == \E df \in DataFramesMatcher : GuardarDf(df)

\* DatabaseManager.guardar_productos(df), the catalogue of the automatic detection
guardar_catalogo_auto == \E df \in DataFramesAuto : GuardarDf(df)

\* ProductMatcher.auto_crear_equivalencias(umbral)
auto_crear_equivalencias ==
    /\ ops < MaxMatcher
    /\ \E gestor \in Gestores, umbral \in Umbrales :
          LET r == AutoCrearEquivalencias(gestor, productos, precios, equivalencias, umbral)
          IN  /\ equivalencias' = r.equivalencias
              /\ Llamar("auto_crear_equivalencias",
                        [SinArgs EXCEPT !.gestor = gestor, !.umbral = umbral],
                        [SinRetorno EXCEPT !.n = r.n, !.listas = r.listas], r.error)
    /\ UNCHANGED favoritos

\* ProductMatcher.buscar_equivalencias_auto(nombre_producto, umbral, limite)
buscar_equivalencias_auto ==
    /\ ops < MaxMatcher
    /\ \E gestor \in Gestores, nombre_producto \in TextosMatcher, umbral \in Umbrales,
          limite \in Limites :
          LET r == BuscarEquivalenciasAuto(gestor, productos, precios, nombre_producto, umbral, limite)
          IN  Llamar("buscar_equivalencias_auto",
                     [SinArgs EXCEPT !.gestor = gestor, !.nombre = nombre_producto,
                                     !.umbral = umbral, !.limite = limite],
                     [SinRetorno EXCEPT !.filas = r.filas], r.error)
    /\ UNCHANGED <<equivalencias, favoritos>>

\* the internal ids a page can hand over: those given out so far and the next one
IdsInternos == 1..(seq_productos + 1)

\* DatabaseManager.agregar_favorito(producto_id)
agregar_favorito ==
    /\ ops < MaxFavoritos
    /\ \E producto_id \in IdsInternos :
          /\ favoritos' = AgregarFavorito(productos, favoritos, producto_id, Ahora)
          /\ Llamar("agregar_favorito", [SinArgs EXCEPT !.producto_id = producto_id], SinRetorno, "")
    /\ UNCHANGED equivalencias

\* DatabaseManager.eliminar_favorito(producto_id)
eliminar_favorito ==
    /\ ops < MaxFavoritos
    /\ \E producto_id \in IdsInternos :
          /\ favoritos' = EliminarFavorito(favoritos, producto_id)
          /\ Llamar("eliminar_favorito", [SinArgs EXCEPT !.producto_id = producto_id], SinRetorno, "")
    /\ UNCHANGED equivalencias

\* DatabaseManager.obtener_favoritos()
obtener_favoritos ==
    /\ ops < MaxFavoritos
    /\ Llamar("obtener_favoritos", SinArgs,
              [SinRetorno EXCEPT !.filas = ObtenerFavoritos(productos, precios, favoritos)], "")
    /\ UNCHANGED <<equivalencias, favoritos>>

\* DatabaseManager.obtener_estadisticas()
obtener_estadisticas ==
    /\ ops < MaxInformes
    /\ Llamar("obtener_estadisticas", SinArgs,
              [SinRetorno EXCEPT !.stats = ObtenerEstadisticas(productos, precios, equivalencias)], "")
    /\ UNCHANGED <<equivalencias, favoritos>>

\* DatabaseManager.obtener_historico_precios(producto_id)
obtener_historico_precios ==
    /\ ops < MaxInformes
    /\ \E producto_id \in IdsInternos :
          Llamar("obtener_historico_precios", [SinArgs EXCEPT !.producto_id = producto_id],
                 [SinRetorno EXCEPT !.filas = ObtenerHistoricoPrecios(precios, producto_id)], "")
    /\ UNCHANGED <<equivalencias, favoritos>>

\* DatabaseManager.obtener_equivalencias(nombre_comun) of database_db_manager.py
consultar_grupo ==
    /\ ops < MaxInformes
    /\ \E nombre_comun \in NombresGrupo :
          Llamar("obtener_equivalencias",
                 [SinArgs EXCEPT !.gestor = "database_db_manager", !.nombre = nombre_comun],
                 [SinRetorno EXCEPT !.filas =
                     ObtenerEquivalencias(productos, precios, equivalencias, nombre_comun)],
                 "")
    /\ UNCHANGED <<equivalencias, favoritos>>

\* the DataFrames of a manager whose connection is closed between calls
DataFramesConexion == {<<>>} \cup DataFramesGrupos

\* DatabaseManager.guardar_productos(df): the empty DataFrame returns before
\* _cursor(); otherwise _cursor(), the rows, and self._conn.commit()
guardar_productos_conexion ==
    \E df \in DataFramesConexion :
        /\ GuardarTablas(df)
        /\ conexion' = IF df = <<>> THEN conexion ELSE Commit(Cursor(conexion))

\* DatabaseManager.obtener_estadisticas(): _cursor() and the queries
obtener_estadisticas_conexion ==
    /\ ops < MaxInformes
    /\ Anotar("obtener_estadisticas", SinArgs,
              [SinRetorno EXCEPT !.stats = ObtenerEstadisticas(productos, precios, equivalencias)], "")
    /\ conexion' = Cursor(conexion)
    /\ UNCHANGED <<equivalencias, favoritos>>

\* DatabaseManager.agregar_favorito(producto_id): _cursor(), the INSERT and
\* self._conn.commit(); the IntegrityError of an id that is no product skips
\* the commit
agregar_favorito_conexion ==
    /\ ops < MaxInformes
    /\ \E producto_id \in IdsInternos :
          /\ favoritos' = AgregarFavorito(productos, favoritos, producto_id, Ahora)
          /\ Anotar("agregar_favorito", [SinArgs EXCEPT !.producto_id = producto_id], SinRetorno, "")
          /\ conexion' = IF \E p \in productos : p.id = producto_id
                          THEN Commit(Cursor(conexion)) ELSE Cursor(conexion)
    /\ UNCHANGED equivalencias

\* DatabaseManager.cerrar()
cerrar ==
    /\ conexion.cierres < MaxCierres
    /\ conexion' = Cerrar(conexion)
    /\ llamada' = [SinLlamada EXCEPT !.op = "cerrar", !.ts = Ahora]
    /\ UNCHANGED <<productos, precios, seq_productos, dia, llamadas, antes, resumen, filas,
                   veces, dias_ingesta, dia_previa, busquedas>>
    /\ UNCHANGED otros
    /\ UNCHANGED concurrencia

\* the connection is lost between two calls (the probe of the next call
\* fails); llamada notes that no call came after it
PerderConexion ==
    /\ conexion.cierres < MaxCierres
    /\ conexion.estado = "abierta"
    /\ conexion' = Perder(conexion)
    /\ llamada' = [SinLlamada EXCEPT !.op = "conexion_perdida", !.ts = Ahora]
    /\ UNCHANGED <<productos, precios, seq_productos, dia, llamadas, antes, resumen, filas,
                   veces, dias_ingesta, dia_previa, busquedas>>
    /\ UNCHANGED otros
    /\ UNCHANGED concurrencia

\* DatabaseManager.guardar_productos(df), the catalogue with its descriptive columns
guardar_fichas == \E df \in DataFramesFichas : GuardarDf(df)

\* DatabaseManager.agregar_favorito(producto_id) of a product of the catalogue
agregar_favorito_catalogo ==
    /\ ops < MaxReferencias
    /\ \E producto_id \in {p.id : p \in productos} :
          /\ favoritos' = AgregarFavorito(productos, favoritos, producto_id, Ahora)
          /\ Llamar("agregar_favorito", [SinArgs EXCEPT !.producto_id = producto_id], SinRetorno, "")
    /\ UNCHANGED equivalencias

\* DatabaseManager.eliminar_favorito(producto_id) of a product of the catalogue
eliminar_favorito_catalogo ==
    /\ ops < MaxReferencias
    /\ \E producto_id \in {p.id : p \in productos} :
          /\ favoritos' = EliminarFavorito(favoritos, producto_id)
          /\ Llamar("eliminar_favorito", [SinArgs EXCEPT !.producto_id = producto_id], SinRetorno, "")
    /\ UNCHANGED equivalencias

\* ProductMatcher.crear_equivalencia_manual(nombre_comun, [producto_id]) of the
\* comparison page, whose matcher is built on db_manager.DatabaseManager
crear_equivalencia_manual ==
    /\ ops < MaxReferencias
    /\ \E nombre_comun \in {Texto("L")}, ids \in [1..1 -> {p.id : p \in productos}] :
          /\ equivalencias' = CrearEquivalenciaDbManager(equivalencias, nombre_comun, ids)
          /\ Llamar("crear_equivalencia",
                    [SinArgs EXCEPT !.gestor = "db_manager", !.nombre = nombre_comun, !.ids = ids],
                    SinRetorno, "")
    /\ UNCHANGED favoritos

\* guardar_productos(df) on connection c, up to the for loop: cur = self._cursor(),
\* the counters, ts = datetime.now().isoformat()
IniciarRun(c) ==
    /\ llamadas < MaxCalls
    /\ runs[c].pc = "inicio"
    /\ \E df \in LotesDe(c) :
          runs' = [runs EXCEPT ![c] = [SinRun EXCEPT !.pc = "bucle", !.df = df, !.i = 1, !.ts = Ahora]]
    /\ llamadas' = llamadas + 1
    /\ UNCHANGED <<productos, precios, seq_productos, dia, llamada, antes, resumen, filas,
                   veces, dias_ingesta, dia_previa, busquedas, escritor, transaccion, conexion>>
    /\ UNCHANGED otros

\* the loop body for a row that fails validation: continue
ContinuarRun(c) ==
    /\ runs[c].pc = "bucle"
    /\ runs[c].i <= Len(runs[c].df)
    /\ ~LlegaAlInsert(runs[c].df[runs[c].i])
    /\ runs' = [runs EXCEPT ![c].i = @ + 1]
    /\ UNCHANGED <<productos, precios, seq_productos, dia, llamadas, llamada, antes, resumen, filas,
                   veces, dias_ingesta, dia_previa, busquedas, escritor, transaccion, conexion>>
    /\ UNCHANGED otros

\* the loop body for a row that reaches the INSERT while no other connection
\* holds the write lock: the first INSERT of the run opens the transaction
\* (the implicit BEGIN of sqlite3) and takes the lock, which the connection
\* keeps until its commit
ProcesarRun(c) ==
    /\ runs[c].pc = "bucle"
    /\ runs[c].i <= Len(runs[c].df)
    /\ LlegaAlInsert(runs[c].df[runs[c].i])
    /\ escritor \in {"", c}
    /\ LET base == IF escritor = c THEN transaccion
                   ELSE [productos |-> productos, precios |-> precios, seq |-> seq_productos]
           st == ProcesarFila([productos |-> base.productos, precios |-> base.precios, seq |-> base.seq,
                               nuevos |-> runs[c].nuevos, actualizados |-> runs[c].actualizados,
                               precios_ok |-> runs[c].precios_ok],
                              runs[c].df[runs[c].i], runs[c].ts)
       IN  /\ transaccion' = [productos |-> st.productos, precios |-> st.precios, seq |-> st.seq]
           /\ runs' = [runs EXCEPT ![c].i = @ + 1, ![c].nuevos = st.nuevos,
                                   ![c].actualizados = st.actualizados,
                                   ![c].precios_ok = st.precios_ok]
    /\ escritor' = c
    /\ UNCHANGED <<productos, precios, seq_productos, dia, llamadas, llamada, antes, resumen, filas,
                   veces, dias_ingesta, dia_previa, busquedas, conexion>>
    /\ UNCHANGED otros

\* the loop body for a row whose INSERT gave up waiting for the write lock:
\* the except of the loop logs the error at debug level and the loop goes on
ExpirarRun(c) ==
    /\ runs[c].pc = "bucle"
    /\ runs[c].i <= Len(runs[c].df)
    /\ LlegaAlInsert(runs[c].df[runs[c].i])
    /\ EsperaAgotada(escritor, c)
    /\ runs' = [runs EXCEPT ![c].i = @ + 1, ![c].expiradas = @ + 1]
    /\ UNCHANGED <<productos, precios, seq_productos, dia, llamadas, llamada, antes, resumen, filas,
                   veces, dias_ingesta, dia_previa, busquedas, escritor, transaccion, conexion>>
    /\ UNCHANGED otros

\* self._conn.commit() after the loop, and the return of the summary
CommitRun(c) ==
    /\ runs[c].pc = "bucle"
    /\ runs[c].i > Len(runs[c].df)
    /\ runs' = [runs EXCEPT ![c].pc = "fin"]
    /\ IF escritor = c
       THEN /\ productos' = transaccion.productos
            /\ precios' = transaccion.precios
            /\ seq_productos' = transaccion.seq
            /\ escritor' = ""
            /\ transaccion' = SinTransaccion
       ELSE UNCHANGED <<productos, precios, seq_productos, escritor, transaccion>>
    /\ UNCHANGED <<dia, llamadas, llamada, antes, resumen, filas,
                   veces, dias_ingesta, dia_previa, busquedas, conexion>>
    /\ UNCHANGED otros

guardar_productos_inicio == \E c \in Conexiones : IniciarRun(c)

guardar_productos_continue == \E c \in Conexiones : ContinuarRun(c)

guardar_productos_fila == \E c \in Conexiones : ProcesarRun(c)

guardar_productos_locked == \E c \in Conexiones : ExpirarRun(c)

guardar_productos_commit == \E c \in Conexiones : CommitRun(c)

\* ingestion runs of the scrapers
Next == guardar_productos \/ PasaDia

Spec == Init /\ [][Next]_vars

\* a catalogue of well-formed rows and the searches of the dashboard
NextBuscar == guardar_catalogo \/ buscar_productos \/ PasaDia

SpecBuscar == Init /\ [][NextBuscar]_vars

\* the group pages of the dashboard over a catalogue
NextGrupos ==
    \/ guardar_catalogo_grupos
    \/ PasaDia
    \/ crear_equivalencia
    \/ obtener_equivalencias
    \/ obtener_historico_equivalencia
    \/ listar_grupos_equivalencia

SpecGrupos == Init /\ [][NextGrupos]_vars

\* the matcher over a catalogue
NextMatcher == guardar_catalogo_matcher \/ auto_crear_equivalencias \/ buscar_equivalencias_auto

SpecMatcher == Init /\ [][NextMatcher]_vars

\* the automatic detection of the comparator page over a catalogue
NextAuto == guardar_catalogo_auto \/ auto_crear_equivalencias

SpecAuto == Init /\ [][NextAuto]_vars

\* the favourites page over a catalogue
NextFavoritos ==
    \/ guardar_catalogo_grupos
    \/ PasaDia
    \/ agregar_favorito
    \/ eliminar_favorito
    \/ obtener_favoritos

SpecFavoritos == Init /\ [][NextFavoritos]_vars

\* the reports of the dashboard over a catalogue
NextInformes ==
    \/ guardar_catalogo_grupos
    \/ PasaDia
    \/ obtener_estadisticas
    \/ obtener_historico_precios
    \/ consultar_grupo

SpecInformes == Init /\ [][NextInformes]_vars

\* one manager whose connection is closed or lost between its calls
NextConexion ==
    \/ guardar_productos_conexion
    \/ obtener_estadisticas_conexion
    \/ agregar_favorito_conexion
    \/ cerrar
    \/ PerderConexion

SpecConexion == Init /\ [][NextConexion]_vars

\* two ingestion runs on separate connections to one database file
NextConcurrente ==
    \/ guardar_productos_inicio
    \/ guardar_productos_continue
    \/ guardar_productos_fila
    \/ guardar_productos_locked
    \/ guardar_productos_commit

SpecConcurrente == Init /\ [][NextConcurrente]_vars

\* re-sightings of products that prices, favourites and groups refer to
NextIdentidad ==
    \/ guardar_fichas
    \/ PasaDia
    \/ agregar_favorito_catalogo
    \/ crear_equivalencia_manual

SpecIdentidad == Init /\ [][NextIdentidad]_vars

\* every operation that writes, and the reading of a product's history
NextHistorico ==
    \/ guardar_fichas
    \/ PasaDia
    \/ agregar_favorito_catalogo
    \/ eliminar_favorito_catalogo
    \/ crear_equivalencia_manual
    \/ obtener_historico_precios

SpecHistorico == Init /\ [][NextHistorico]_vars

(* ---------------------------- properties ------------------------------- *)

Clave(p) == <<p.id_externo, p.supermercado>>

Claves(prods) == {Clave(p) : p \in prods}

ClaveFila(row) == <<Campo(row.Id), Campo(row.Supermercado)>>

\* a row that passes validation as the specification words it: non-empty
\* Id, Nombre and Supermercado, and a Precio that is a number greater than 0
FilaValida(row) ==
    /\ Campo(row.Id) # <<>>
    /\ Campo(row.Nombre) # <<>>
    /\ Campo(row.Supermercado) # <<>>
    /\ Float(row.Precio).ok
    /\ ~Float(row.Precio).nan
    /\ Float(row.Precio).n > 0

EsGuardar == llamada.op = "guardar_productos"

EsBuscar == llamada.op = "buscar_productos"

TodasValidas(df) == df # <<>> /\ \A i \in 1..Len(df) : FilaValida(df[i])

ClavesDistintas(df) == \A i, j \in 1..Len(df) : ClaveFila(df[i]) = ClaveFila(df[j]) => i = j

Supermercados(rows) == {r.supermercado : r \in rows}

FilasDe(seq) == {seq[i] : i \in 1..Len(seq)}

C2_ClaveUnica ==
    /\ \A p, q \in productos : Clave(p) = Clave(q) => p = q
    /\ EsGuardar =>
          /\ \A i \in 1..Len(llamada.df) :
                (FilaValida(llamada.df[i]) /\ ClaveFila(llamada.df[i]) \in Claves(antes.productos)) =>
                    \E p \in antes.productos, q \in productos :
                        /\ Clave(p) = ClaveFila(llamada.df[i])
                        /\ q.id = p.id
                        /\ Clave(q) = Clave(p)
                        /\ q.fecha_creacion = p.fecha_creacion
                        /\ (\A j \in 1..Len(llamada.df) : ClaveFila(llamada.df[j]) = ClaveFila(llamada.df[i]) => j <= i)
                              => q.nombre = Campo(llamada.df[i].Nombre)
          /\ (\A i \in 1..Len(llamada.df) : ClaveFila(llamada.df[i]) \in Claves(antes.productos))
                => Cardinality(productos) = Cardinality(antes.productos)

\* a re-sighted product whose nombre was overwritten in place
C2_Testigo ==
    /\ EsGuardar
    /\ \E i \in 1..Len(llamada.df) : FilaValida(llamada.df[i]) /\ ClaveFila(llamada.df[i]) \in Claves(antes.productos)
    /\ \E p \in antes.productos, q \in productos : q.id = p.id /\ q.nombre # p.nombre
    /\ Cardinality(productos) = Cardinality(antes.productos)

\* C3: the second of two guardar_productos calls on the same calendar day with
\* the same batch of valid rows reports productos_nuevos = 0, counts the rows
\* as productos_actualizados, reports precios_registrados = 0 and leaves the
\* number of productos rows and the precios table unchanged.
C3_ReingestaIdempotente ==
    (EsGuardar /\ veces >= 2 /\ dia_previa = llamada.ts.dia /\ TodasValidas(llamada.df)) =>
        /\ resumen.productos_nuevos = 0
        /\ resumen.productos_actualizados = Len(llamada.df)
        /\ resumen.precios_registrados = 0
        /\ Cardinality(productos) = Cardinality(antes.productos)
        /\ precios = antes.precios

\* the same batch of n distinct valid products ingested veces times, and
\* nothing else, since the store was empty
MismoLoteDesdeVacio ==
    /\ EsGuardar
    /\ veces = llamadas
    /\ TodasValidas(llamada.df)
    /\ ClavesDistintas(llamada.df)

C5_MejorEsfuerzo ==
    EsGuardar =>
        LET st == Guardar(antes.productos, antes.precios, antes.seq,
                          SelectSeq(llamada.df, FilaValida), llamada.ts)
        IN  /\ productos = st.productos
            /\ precios = st.precios
            /\ resumen = [productos_nuevos |-> st.nuevos,
                          productos_actualizados |-> st.actualizados,
                          precios_registrados |-> st.precios_ok]

\* the valid row at index i of the batch is the first sighting of its key
EsNueva(i) ==
    /\ ClaveFila(llamada.df[i]) \notin Claves(antes.productos)
    /\ \A j \in 1..(i - 1) : FilaValida(llamada.df[j]) => ClaveFila(llamada.df[j]) # ClaveFila(llamada.df[i])

\* C6: each valid row is counted once, as new when its key did not exist
\* before the row was processed and as updated otherwise, so new + updated is
\* the number of valid rows.
C6_Contabilidad ==
    EsGuardar =>
        LET validas == {i \in 1..Len(llamada.df) : FilaValida(llamada.df[i])}
        IN  /\ resumen.productos_nuevos = Cardinality({i \in validas : EsNueva(i)})
            /\ resumen.productos_actualizados = Cardinality({i \in validas : ~EsNueva(i)})
            /\ resumen.productos_nuevos + resumen.productos_actualizados = Cardinality(validas)

\* C7: every row of precios has precio > 0.
C7_PrecioPositivo == \A r \in precios : r.precio > 0

\* a batch with a row of non-positive Precio next to a row that was stored
C7_Testigo ==
    /\ EsGuardar
    /\ \E i \in 1..Len(llamada.df) :
          Float(llamada.df[i].Precio).ok /\ ~Float(llamada.df[i].Precio).nan /\ Float(llamada.df[i].Precio).n <= 0
    /\ resumen.precios_registrados > 0
    /\ precios # {}

\* C8: an unfiltered search with limite >= 2 returns products of more than one
\* retailer whenever products of two or more retailers match the name.
C8_BusquedaJusta ==
    (EsBuscar /\ ~Truthy(llamada.supermercado) /\ llamada.limite >= 2) =>
        (Cardinality(Supermercados(FiltroNombre(productos, llamada.nombre))) >= 2
            => Cardinality(Supermercados(FilasDe(filas))) >= 2)

\* a text search over three products, matched by products of two retailers
C8_Testigo ==
    /\ EsBuscar
    /\ ~Truthy(llamada.supermercado)
    /\ Truthy(llamada.nombre)
    /\ llamada.limite >= 2
    /\ Cardinality(productos) >= 3
    /\ Cardinality(Supermercados(FiltroNombre(productos, llamada.nombre))) >= 2
    /\ Cardinality(Supermercados(FilasDe(filas))) >= 2

\* C9: buscar_productos returns at most limite rows, with or without a
\* retailer filter.
C9_TopeDeResultados == EsBuscar => Len(filas) <= llamada.limite

\* the query text is empty, missing or only whitespace
ConsultaVacia == Campo(llamada.nombre) = <<>>

\* C10 as claimed: a search with an empty, missing or whitespace-only text
\* returns no results.
C10_ConsultaVaciaSinResultados == (EsBuscar /\ ConsultaVacia) => filas = <<>>

\* sub occurs in s
Contiene(s, sub) == \E i \in 1..(Len(s) - Len(sub) + 1) : SubSeq(s, i, i + Len(sub) - 1) = sub

\* the products such a search is about: those of the retailer filter, and, for
\* a whitespace-only text, those whose nombre contains the text
Candidatos ==
    {p \in productos :
        /\ Truthy(llamada.supermercado) => p.supermercado = Str(llamada.supermercado)
        /\ Truthy(llamada.nombre) => Contiene(p.nombre, Str(llamada.nombre))}

\* C10 as amended: an empty or missing text applies no name filter, and a
\* whitespace-only text is matched literally as a substring; the search
\* returns the candidates up to limite under a retailer filter, and up to
\* max(4, limite // 5) of each retailer without one.
C10_ConsultaVaciaSinFiltro ==
    (EsBuscar /\ ConsultaVacia) =>
        /\ {r.id : r \in FilasDe(filas)} \subseteq {p.id : p \in Candidatos}
        /\ Cardinality(FilasDe(filas)) = Len(filas)
        /\ IF Truthy(llamada.supermercado)
           THEN Len(filas) = Min(Cardinality(Candidatos), llamada.limite)
           ELSE \A s \in Supermercados(productos) :
                    Cardinality({r \in FilasDe(filas) : r.supermercado = s})
                        = Min(Cardinality({p \in Candidatos : p.supermercado = s}), LimitePorSuper(llamada.limite))

\* a search without text that returned the whole catalogue of two retailers
C10_Testigo ==
    /\ EsBuscar
    /\ ~Truthy(llamada.nombre)
    /\ ~Truthy(llamada.supermercado)
    /\ Cardinality(Supermercados(productos)) >= 2
    /\ Len(filas) = Cardinality(productos)

(* ---------------------------- groups ----------------------------------- *)

EsOp(op) == llamada.op = op

\* what obtener_equivalencias(nombre_comun) of the class gestor returns in this state
LeerEquivalencias(gestor, nombre_comun) ==
    IF gestor = "database_db_manager"
    THEN ObtenerEquivalencias(productos, precios, equivalencias, nombre_comun)
    ELSE ObtenerEquivalenciasDbManager(productos, precios, equivalencias, nombre_comun)

\* what obtener_historico_equivalencia(nombre_comun) of the class gestor returns in this state
LeerHistoricoEquivalencia(gestor, nombre_comun) ==
    IF gestor = "database_db_manager"
    THEN ObtenerHistoricoEquivalencia(productos, precios, equivalencias, nombre_comun)
    ELSE ObtenerHistoricoEquivalenciaDbManager(productos, precios, equivalencias, nombre_comun)

\* the group names stored when the last call began
GruposPrevios == FilasDe(ListarGruposEquivalencia(previo.equivalencias))

\* C11: after crear_equivalencia(name, ids) with ids of existing products, for a
\* name that was not yet a group, the call returns normally,
\* obtener_equivalencias(name) returns exactly one row per product of ids, each
\* with the product's current price, and listar_grupos_equivalencia() contains name.
C11_GrupoManual ==
    (EsOp("crear_equivalencia") /\ args.ids # <<>> /\ args.nombre \notin GruposPrevios) =>
        LET rows == LeerEquivalencias(args.gestor, args.nombre)
        IN  /\ error = ""
            /\ Len(rows) = Cardinality(FilasDe(args.ids))
            /\ \A id \in FilasDe(args.ids) :
                   \E i \in 1..Len(rows) : rows[i].id = id /\ rows[i].precio = PrecioActual(precios, id)
            /\ args.nombre \in FilasDe(ListarGruposEquivalencia(equivalencias))

\* C12: after crear_equivalencia(name, ids) for a name that already was a group,
\* the table holds no two membership rows of name for the same product,
\* obtener_equivalencias(name) returns no product twice and
\* obtener_historico_equivalencia(name) returns no price observation twice.
C12_RecreacionSinDuplicados ==
    (EsOp("crear_equivalencia") /\ args.nombre \in GruposPrevios) =>
        LET es == SelectEquivalencias(equivalencias, args.nombre)
            rows == LeerEquivalencias(args.gestor, args.nombre)
            hist == LeerHistoricoEquivalencia(args.gestor, args.nombre)
        IN  /\ \A i, j \in 1..Len(es) : i # j => es[i] # es[j]
            /\ \A i, j \in 1..Len(rows) : i # j => rows[i].id # rows[j].id
            /\ \A i, j \in 1..Len(hist) : i # j => hist[i] # hist[j]

(* ---------------------------- matcher ---------------------------------- *)

\* the products that have a price record
ConPrecio == {p \in productos : \E r \in precios : r.producto_id = p.id}

\* the product of internal id
Producto(id) == CHOOSE p \in productos : p.id = id

\* the similarity of the names of two products reaches t
Parecidos(a, b, t) ==
    100 * TokenSortRatio(Producto(a).nombre, Producto(b).nombre).num
        >= t * TokenSortRatio(Producto(a).nombre, Producto(b).nombre).den

\* the member lists of the groups that the last auto_crear_equivalencias stored
GruposCreados ==
    IF error = "" THEN retorno.listas ELSE SubSeq(retorno.listas, 1, Len(retorno.listas) - 1)

\* C13: no group created by auto_crear_equivalencias(umbral=t) holds two
\* members whose names score below t against each other.
C13_UmbralPorPares ==
    EsOp("auto_crear_equivalencias") =>
        \A k \in 1..Len(GruposCreados) :
            \A a, b \in FilasDe(GruposCreados[k].ids) : Parecidos(a, b, args.umbral)

\* C14: when no product has a price, or the priced products belong to fewer
\* than two retailers, auto_crear_equivalencias returns 0, raises nothing and
\* leaves the equivalencias table as it was.
C14_PrecondicionAuto ==
    (EsOp("auto_crear_equivalencias") /\ Cardinality(Supermercados(ConPrecio)) < 2) =>
        /\ retorno.n = 0
        /\ error = ""
        /\ equivalencias = previo.equivalencias

C14_Testigo ==
    /\ EsOp("auto_crear_equivalencias")
    /\ Cardinality(Supermercados(ConPrecio)) = 1
    /\ retorno.n = 0

\* C15: every member list that auto_crear_equivalencias hands to
\* crear_equivalencia starts with a product that bears the group's name, all
\* lists of a call start with products of one retailer, and no list holds two
\* products of the same retailer.
C15_FormaDeLosMiembros ==
    EsOp("auto_crear_equivalencias") =>
        \A k \in 1..Len(retorno.listas) :
            LET ids == retorno.listas[k].ids
            IN  /\ Producto(ids[1]).nombre = retorno.listas[k].nombre
                /\ Producto(ids[1]).supermercado = Producto(retorno.listas[1].ids[1]).supermercado
                /\ \A i, j \in 1..Len(ids) :
                       i # j => Producto(ids[i]).supermercado # Producto(ids[j]).supermercado

C15_Testigo ==
    /\ EsOp("auto_crear_equivalencias")
    /\ Len(retorno.listas) = 2
    /\ \E k \in 1..2 : Len(retorno.listas[k].ids) = 3

\* the rows that the last call added to equivalencias
Agregadas == SubSeq(equivalencias, Len(previo.equivalencias) + 1, Len(equivalencias))

\* the retailer of the first row of the catalogue the matcher reads
SupermercadoRef == Head(DfTodos(args.gestor, productos, precios).filas).supermercado

\* the products of the reference retailer that have a match at the threshold
\* of the call in another retailer
ConEquivalente ==
    {p \in ConPrecio : /\ p.supermercado = SupermercadoRef
                        /\ \E q \in ConPrecio : /\ q.supermercado # SupermercadoRef
                                                  /\ Parecidos(p.id, q.id, args.umbral)}

\* C16: auto_crear_equivalencias returns normally, the groups it stores are
\* those named after the reference products that have a match at the
\* threshold in another retailer, and it returns the number of groups stored.
C16_ResultadoAuto ==
    (EsOp("auto_crear_equivalencias") /\ ConPrecio # {}) =>
        /\ error = ""
        /\ {Agregadas[i].nombre_comun : i \in 1..Len(Agregadas)} = {p.nombre : p \in ConEquivalente}
        /\ retorno.n = Cardinality({Agregadas[i].nombre_comun : i \in 1..Len(Agregadas)})

\* the score of a result row against the text of the call reaches the threshold of the call
SobreUmbral(fila) ==
    100 * TokenSortRatio(args.nombre, fila.nombre).num
        >= args.umbral * TokenSortRatio(args.nombre, fila.nombre).den

\* C17: buscar_equivalencias_auto(text, umbral, limite) raises nothing and
\* returns at most limite rows, each of a product whose name scores at least
\* umbral against text, in descending order of score; it returns no row when
\* no priced product reaches the threshold.
C17_Sugerencias ==
    EsOp("buscar_equivalencias_auto") =>
        /\ error = ""
        /\ Len(retorno.filas) <= args.limite
        /\ \A k \in 1..Len(retorno.filas) :
               /\ retorno.filas[k].id \in {p.id : p \in ConPrecio}
               /\ retorno.filas[k].nombre = Producto(retorno.filas[k].id).nombre
               /\ retorno.filas[k].puntuacion = TokenSortRatio(args.nombre, retorno.filas[k].nombre)
               /\ SobreUmbral(retorno.filas[k])
        /\ \A k \in 1..(Len(retorno.filas) - 1) :
               ~ScoreMenor(retorno.filas[k].puntuacion, retorno.filas[k + 1].puntuacion)
        /\ (\A p \in ConPrecio : ~SobreUmbral(p)) => retorno.filas = <<>>

C17_Testigo ==
    /\ EsOp("buscar_equivalencias_auto")
    /\ Len(retorno.filas) = 2
    /\ ScoreMenor(retorno.filas[2].puntuacion, retorno.filas[1].puntuacion)
    /\ Cardinality({p \in ConPrecio : SobreUmbral(p)}) > 2

(* ---------------------------- favourites ------------------------------- *)

\* how many rows of obtener_favoritos() in this state are the product id
VecesFavorito(id) ==
    Cardinality({i \in 1..Len(ObtenerFavoritos(productos, precios, favoritos)) :
                    ObtenerFavoritos(productos, precios, favoritos)[i].id = id})

\* C18: after agregar_favorito(id) of an existing product, obtener_favoritos()
\* holds id exactly once; after eliminar_favorito(id) it does not hold id and
\* the other favourites are as before.
C18_FavoritoIdaYVuelta ==
    /\ (EsOp("agregar_favorito") /\ args.producto_id \in {p.id : p \in productos}) =>
           VecesFavorito(args.producto_id) = 1
    /\ EsOp("eliminar_favorito") =>
           /\ VecesFavorito(args.producto_id) = 0
           /\ favoritos = SelectSeq(previo.favoritos, LAMBDA f : f.producto_id # args.producto_id)

(* ---------------------------- errors ----------------------------------- *)

\* C19: no public call of DatabaseManager lets an exception of the storage
\* layer escape to its caller.
C19_SinExcepciones == error = ""

(* ---------------------------- statistics ------------------------------- *)

\* C20: on a store without products, prices and groups obtener_estadisticas()
\* raises nothing and returns zero counts, an empty per-retailer map and NULL
\* first and last capture; obtener_historico_precios of an id that is no
\* product and obtener_equivalencias of a name that is no group return no row.
C20_AlmacenVacio ==
    /\ (EsOp("obtener_estadisticas") /\ productos = {} /\ precios = {} /\ equivalencias = <<>>) =>
           /\ error = ""
           /\ retorno.stats.total_productos = 0
           /\ retorno.stats.total_registros_precios = 0
           /\ retorno.stats.total_supermercados = 0
           /\ retorno.stats.total_equivalencias = 0
           /\ DOMAIN retorno.stats.productos_por_supermercado = {}
           /\ retorno.stats.primera_captura.null
           /\ retorno.stats.ultima_captura.null
    /\ (EsOp("obtener_historico_precios") /\ args.producto_id \notin {p.id : p \in productos}) =>
           (error = "" /\ retorno.filas = <<>>)
    /\ (EsOp("obtener_equivalencias")
          /\ args.nombre \notin FilasDe(ListarGruposEquivalencia(equivalencias))) =>
           (error = "" /\ retorno.filas = <<>>)

C20_Testigo ==
    /\ EsOp("obtener_estadisticas")
    /\ productos = {}
    /\ precios = {}
    /\ error = ""
    /\ retorno.stats.total_productos = 0
    /\ retorno.stats.primera_captura.null

(* ---------------------------- concurrent ingestion --------------------- *)

\* both runs have returned
RunsTerminados == \A c \in Conexiones : runs[c].pc = "fin"

\* every valid row of the batch of connection c has its product stored, with
\* exactly one price observation on the day of the run
LoteGuardado(c) ==
    \A i \in 1..Len(runs[c].df) :
        FilaValida(runs[c].df[i]) =>
            \E p \in productos :
                /\ Clave(p) = ClaveFila(runs[c].df[i])
                /\ Cardinality({r \in precios : /\ r.producto_id = p.id
                                                /\ r.fecha_captura.dia = runs[c].ts.dia}) = 1

\* C21: when two guardar_productos runs on separate connections, with batches
\* of disjoint products, have both returned, every valid row of both batches
\* has its product stored with exactly one price observation for that day,
\* whatever the interleaving of the runs was.
C21_IngestaIntercalada == RunsTerminados => \A c \in Conexiones : LoteGuardado(c)

\* the runs in which no INSERT gave up waiting for the lock keep every row
IngestaSinEsperaAgotada ==
    (RunsTerminados /\ \A c \in Conexiones : runs[c].expiradas = 0) => \A c \in Conexiones : LoteGuardado(c)

\* two runs that overlapped and both kept their rows
IngestaSinEsperaAgotada_Testigo ==
    /\ RunsTerminados
    /\ \A c \in Conexiones : runs[c].expiradas = 0 /\ runs[c].precios_ok > 0
    /\ runs["A"].ts.hora < runs["B"].ts.hora
    /\ Cardinality(Supermercados(productos)) = 2

(* ---------------------------- product identity ------------------------ *)

\* the last row of the batch of the last call that bears the key
UltimaFilaDeClave(clave) ==
    llamada.df[CHOOSE i \in 1..Len(llamada.df) :
                   /\ ClaveFila(llamada.df[i]) = clave
                   /\ \A j \in (i + 1)..Len(llamada.df) : ClaveFila(llamada.df[j]) # clave]

\* the internal id belonged to a product when the last call began, and
\* belongs to the product of the same key now
Resuelve(id) ==
    \A p \in antes.productos : p.id = id => \E q \in productos : q.id = id /\ Clave(q) = Clave(p)

\* C22: after guardar_productos, a product that existed before and has a row
\* in the batch keeps its internal id and fecha_creacion and bears the nombre,
\* categoria, formato, url and url_imagen of the last row of its key in the
\* batch; every price row, favourite and group row that referred to a product
\* before is still stored and refers to the product of the same key.
C22_IdentidadEstable ==
    EsGuardar =>
        /\ \A p \in antes.productos :
              (\E i \in 1..Len(llamada.df) : ClaveFila(llamada.df[i]) = Clave(p)) =>
                  \E q \in productos :
                      LET row == UltimaFilaDeClave(Clave(p))
                      IN  /\ q.id = p.id
                          /\ Clave(q) = Clave(p)
                          /\ q.fecha_creacion = p.fecha_creacion
                          /\ q.nombre = Campo(row.Nombre)
                          /\ q.categoria = Campo(Get(row, "Categoria"))
                          /\ q.formato = Campo(Get(row, "Formato"))
                          /\ q.url = Campo(Get(row, "URL"))
                          /\ q.url_imagen = Campo(Get(row, "URL_imagen"))
        /\ \A r \in antes.precios : r \in precios /\ Resuelve(r.producto_id)
        /\ \A i \in 1..Len(favoritos) : Resuelve(favoritos[i].producto_id)
        /\ \A i \in 1..Len(equivalencias) : Resuelve(equivalencias[i].producto_id)

\* a product with a price, a favourite and a group row was re-sighted with
\* another name, category, format and urls
C22_Testigo ==
    /\ EsGuardar
    /\ \E p \in antes.productos, q \in productos :
          /\ q.id = p.id
          /\ q.nombre # p.nombre /\ q.categoria # p.categoria /\ q.formato # p.formato
          /\ q.url # p.url /\ q.url_imagen # p.url_imagen
          /\ \E r \in antes.precios : r.producto_id = p.id
          /\ \E i \in 1..Len(favoritos) : favoritos[i].producto_id = p.id
          /\ \E i \in 1..Len(equivalencias) : equivalencias[i].producto_id = p.id

(* ---------------------------- first price of the day ------------------- *)

\* the observations of the product of a key, without their row ids
Observaciones(prods, precs, clave) ==
    {[precio |-> r.precio, precio_por_unidad |-> r.precio_por_unidad, fecha_captura |-> r.fecha_captura] :
        r \in {x \in precs : \E p \in prods : p.id = x.producto_id /\ Clave(p) = clave}}

\* those of a calendar day
ObservacionesDelDia(prods, precs, clave, d) ==
    {o \in Observaciones(prods, precs, clave) : o.fecha_captura.dia = d}

\* the batch of the last call with its rows in another order, the rows of the key in their own order
Reordenados(clave) ==
    LET n == Len(llamada.df)
        perms == {f \in [1..n -> 1..n] : \A i, j \in 1..n : f[i] = f[j] => i = j}
    IN  {[i \in 1..n |-> llamada.df[f[i]]] :
            f \in {g \in perms : \A i, j \in 1..n :
                      (i < j /\ ClaveFila(llamada.df[g[i]]) = clave /\ ClaveFila(llamada.df[g[j]]) = clave)
                          => g[i] < g[j]}}

\* the first row of the batch of the last call that bears the key
PrimeraFilaDeClave(clave) ==
    llamada.df[CHOOSE i \in 1..Len(llamada.df) :
                   /\ ClaveFila(llamada.df[i]) = clave
                   /\ \A j \in 1..(i - 1) : ClaveFila(llamada.df[j]) # clave]

\* C23: after guardar_productos, a product that had a price observation for
\* the day of the call keeps exactly that observation for the day, whatever
\* the Precio of its rows in the batch; a product that had none and has rows in
\* the batch has the observation of the first of them; and the observations of
\* a product are the same for every order of the other rows of the batch.
C23_PrimerPrecioDelDia ==
    EsGuardar =>
        \A k \in {ClaveFila(llamada.df[i]) : i \in 1..Len(llamada.df)} :
            LET hoy == llamada.ts.dia
                previas == ObservacionesDelDia(antes.productos, antes.precios, k, hoy)
                row == PrimeraFilaDeClave(k)
            IN  /\ ObservacionesDelDia(productos, precios, k, hoy) =
                       IF previas # {} THEN previas
                       ELSE {[precio |-> Float(row.Precio).n,
                              precio_por_unidad |-> Campo(Get(row, "Precio_unidad")),
                              fecha_captura |-> llamada.ts]}
                /\ \A df \in Reordenados(k) :
                       LET st == Guardar(antes.productos, antes.precios, antes.seq, df, llamada.ts)
                       IN  Observaciones(st.productos, st.precios, k) = Observaciones(productos, precios, k)

\* a batch of three rows, two of them of a product that had its observation of
\* the day, at another Precio than the first of the two
C23_Testigo ==
    /\ EsGuardar
    /\ Len(llamada.df) = 3
    /\ \E k \in {ClaveFila(llamada.df[i]) : i \in 1..Len(llamada.df)} :
          /\ Cardinality(Reordenados(k)) > 1
          /\ \E o \in ObservacionesDelDia(antes.productos, antes.precios, k, llamada.ts.dia) :
                /\ o.precio # Float(PrimeraFilaDeClave(k).Precio).n
                /\ o.fecha_captura # llamada.ts
                /\ ObservacionesDelDia(productos, precios, k, llamada.ts.dia) = {o}

(* ---------------------------- append-only history --------------------- *)

\* a is the beginning of b
EsPrefijo(a, b) == Len(a) <= Len(b) /\ SubSeq(b, 1, Len(a)) = a

\* the history that obtener_historico_precios would return is kept by the step
HistoricoConservado ==
    /\ precios \subseteq precios'
    /\ \A id \in {r.producto_id : r \in precios} :
           EsPrefijo(ObtenerHistoricoPrecios(precios, id), ObtenerHistoricoPrecios(precios', id))

\* C24: no operation updates or deletes a row of precios: every step keeps the
\* rows the table holds, and the history that obtener_historico_precios(id)
\* returns before the step is the beginning of the one it returns after it.
C24_HistoricoSoloCrece == [][HistoricoConservado]_vars

\* a history of two observations of two days, at two prices, read after the
\* product was re-sighted
C24_Testigo ==
    /\ EsOp("obtener_historico_precios")
    /\ Len(retorno.filas) = 2
    /\ retorno.filas[1].precio # retorno.filas[2].precio
    /\ FechaMenor(retorno.filas[1].fecha_captura, retorno.filas[2].fecha_captura)
    /\ llamadas >= 2

(* ---------------------------- history and current price --------------- *)

\* the price of the last element of the history of the product, NULL for an
\* empty history
UltimoDelHistorico(id) ==
    LET hist == ObtenerHistoricoPrecios(precios, id)
    IN  IF hist = <<>> THEN SqlNull ELSE hist[Len(hist)].precio

\* every row of a result bears the price of the last element of the history of its product
PreciosAlDia(rows) == \A i \in 1..Len(rows) : rows[i].precio = UltimoDelHistorico(rows[i].id)

\* C25: obtener_historico_precios(id) returns all observations of the product
\* in ascending order of fecha_captura; obtener_ultimo_precio(id) and the
\* precio of every row of buscar_productos, obtener_productos_con_precio_actual,
\* obtener_equivalencias and obtener_favoritos give the price of the last
\* element of that history (none for an empty history); and
\* obtener_productos_con_precio_actual returns no product twice.
C25_HistoricoYPrecioActual ==
    /\ \A p \in productos :
          LET hist == ObtenerHistoricoPrecios(precios, p.id)
          IN  /\ Len(hist) = Cardinality({r \in precios : r.producto_id = p.id})
              /\ \A i \in 1..(Len(hist) - 1) : FechaMenor(hist[i].fecha_captura, hist[i + 1].fecha_captura)
              /\ \A gestor \in Gestores :
                     ObtenerUltimoPrecio(gestor, precios, p.id)
                         = [precio |-> UltimoDelHistorico(p.id), error |-> ""]
    /\ PreciosAlDia(Buscar(productos, precios, PyNone, PyNone, Cardinality(productos)))
    /\ \A gestor \in Gestores :
          LET rows == DfTodos(gestor, productos, precios).filas
          IN  /\ PreciosAlDia(rows)
              /\ \A i, j \in 1..Len(rows) : rows[i].id = rows[j].id => i = j
              /\ \A nombre_comun \in NombresGrupo : PreciosAlDia(LeerEquivalencias(gestor, nombre_comun))
    /\ PreciosAlDia(ObtenerFavoritos(productos, precios, favoritos))

\* the same without obtener_ultimo_precio and obtener_equivalencias
PreciosAlDiaEnListados ==
    /\ \A p \in productos :
          LET hist == ObtenerHistoricoPrecios(precios, p.id)
          IN  /\ Len(hist) = Cardinality({r \in precios : r.producto_id = p.id})
              /\ \A i \in 1..(Len(hist) - 1) : FechaMenor(hist[i].fecha_captura, hist[i + 1].fecha_captura)
    /\ PreciosAlDia(Buscar(productos, precios, PyNone, PyNone, Cardinality(productos)))
    /\ \A gestor \in Gestores :
          LET rows == DfTodos(gestor, productos, precios).filas
          IN  /\ PreciosAlDia(rows)
              /\ \A i, j \in 1..Len(rows) : rows[i].id = rows[j].id => i = j
    /\ PreciosAlDia(ObtenerFavoritos(productos, precios, favoritos))

\* every row of obtener_equivalencias of db_manager.py bears the last price of the history
EquivalenciasDbManagerAlDia ==
    \A nombre_comun \in NombresGrupo : PreciosAlDia(LeerEquivalencias("db_manager", nombre_comun))

(* ---------------------------- tie-break of the matcher ---------------- *)

\* the score of the names of two products, as a fraction of 1
Puntuacion(a, b) == TokenSortRatio(Producto(a).nombre, Producto(b).nombre)

\* the score of a and b is below that of a and c
PuntuaMenos(a, b, c) ==
    Puntuacion(a, b).num * Puntuacion(a, c).den < Puntuacion(a, c).num * Puntuacion(a, b).den

\* the ids of the products of a retailer in the order of the catalogue that
\* the matcher of the last call reads
CatalogoDe(super) ==
    LET rows == SelectSeq(DfTodos(args.gestor, productos, precios).filas,
                          LAMBDA r : r.supermercado = super)
    IN  [i \in 1..Len(rows) |-> rows[i].id]

\* the member that the last call chose in retailer cat is the first of the
\* best-scoring products of the retailer, and reaches the threshold
PrimeroDeLosMejores(ref, id, cat) ==
    \E i \in 1..Len(cat) :
        /\ cat[i] = id
        /\ Parecidos(ref, id, args.umbral)
        /\ \A j \in 1..Len(cat) : ~PuntuaMenos(ref, id, cat[j])
        /\ \A j \in 1..(i - 1) : PuntuaMenos(ref, cat[j], id)

RECURSIVE SumaDeValores(_, _)
\* the sum of the values of the dict d over the keys claves
SumaDeValores(d, claves) ==
    IF claves = {} THEN 0
    ELSE LET k == CHOOSE k \in claves : TRUE
         IN  d[k] + SumaDeValores(d, claves \ {k})

\* the counts of obtener_estadisticas agree with each other and with the tables
EstadisticasDe(stats) ==
    /\ stats.total_registros_precios = Cardinality(precios)
    /\ stats.total_supermercados = Cardinality(DOMAIN stats.productos_por_supermercado)
    /\ SumaDeValores(stats.productos_por_supermercado, DOMAIN stats.productos_por_supermercado)
           = stats.total_productos

\* C27: after an ingestion total_productos is the number of distinct
\* (Id, Supermercado) pairs of the valid rows ingested so far (those stored
\* before the call and those of the valid rows of the batch),
\* total_registros_precios is the number of precios rows, total_supermercados
\* is the number of keys of productos_por_supermercado, and the values of
\* productos_por_supermercado sum to total_productos.
C27_EstadisticasYAlmacen ==
    EsGuardar =>
        LET stats == ObtenerEstadisticas(productos, precios, equivalencias)
            validas == {i \in 1..Len(llamada.df) : FilaValida(llamada.df[i])}
        IN  /\ stats.total_productos
                   = Cardinality(Claves(antes.productos) \cup {ClaveFila(llamada.df[i]) : i \in validas})
            /\ EstadisticasDe(stats)

\* the counts that obtener_estadisticas returned agree with each other and
\* with the tables, and total_productos is the number of distinct keys stored
EstadisticasCoherentes ==
    EsOp("obtener_estadisticas") =>
        /\ retorno.stats.total_productos = Cardinality(Claves(productos))
        /\ EstadisticasDe(retorno.stats)

\* statistics were read from a store of two products sighted on two days
EstadisticasCoherentes_Testigo ==
    /\ EsOp("obtener_estadisticas")
    /\ retorno.stats.total_supermercados = 1
    /\ retorno.stats.total_productos = 2
    /\ retorno.stats.total_registros_precios = 4

(* ---------------------------- members of a group name ------------------ *)

\* the products stored as members under nombre_comun
MiembrosGuardados(nombre_comun) ==
    {p \in productos : \E i \in 1..Len(equivalencias) :
         /\ equivalencias[i].nombre_comun = nombre_comun
         /\ equivalencias[i].producto_id = p.id}

\* the products of the rows that the last call returned
ProductosDevueltos == {retorno.filas[k].id : k \in 1..Len(retorno.filas)}

\* C28: obtener_equivalencias(name) returns every product stored as a member
\* under name, whichever crear_equivalencia call stored it.
C28_TodosLosMiembros ==
    EsOp("obtener_equivalencias") =>
        \A p \in MiembrosGuardados(args.nombre) : p.id \in ProductosDevueltos

\* obtener_equivalencias(name) of db_manager.py returns every product stored
\* as a member under name
TodosLosMiembrosDbManager ==
    (EsOp("obtener_equivalencias") /\ args.gestor = "db_manager") =>
        \A p \in MiembrosGuardados(args.nombre) : p.id \in ProductosDevueltos

\* a name that two calls gave different members was read with db_manager.py
TodosLosMiembrosDbManager_Testigo ==
    /\ EsOp("obtener_equivalencias")
    /\ args.gestor = "db_manager"
    /\ Len(equivalencias) = 2
    /\ Cardinality(MiembrosGuardados(args.nombre)) = 2
    /\ ops = 3

(* ---------------------------- repeated automatic detection ------------- *)

\* the step is a run of auto_crear_equivalencias with the arguments of the
\* run before it, on the catalogue of that run
SegundaEjecucion ==
    /\ EsOp("auto_crear_equivalencias")
    /\ llamada'.op = "auto_crear_equivalencias"
    /\ args' = args
    /\ productos' = productos
    /\ precios' = precios

\* the second run ends as the first and leaves the names of the groups as
\* they were
MismoResultado ==
    /\ retorno'.n = retorno.n
    /\ error' = error
    /\ FilasDe(ListarGruposEquivalencia(equivalencias'))
           = FilasDe(ListarGruposEquivalencia(equivalencias))

\* C29: a run of auto_crear_equivalencias that follows a run with the same
\* threshold on the same catalogue returns the same count, and
\* listar_grupos_equivalencia() gives the same set of names after it as before.
C29_AutoIgnoraGrupos == [][SegundaEjecucion => MismoResultado]_vars

\* a second run that found the groups of the first run stored, and stored and
\* counted them again
C29_Testigo ==
    /\ EsOp("auto_crear_equivalencias")
    /\ ops = 2
    /\ error = ""
    /\ retorno.n > 0
    /\ previo.equivalencias # <<>>
    /\ equivalencias = previo.equivalencias \o previo.equivalencias

(* ---------------------------- reconnection ----------------------------- *)

\* the last call asked _cursor() for a cursor
UsoCursor ==
    \/ EsGuardar /\ llamada.df # <<>>
    \/ EsOp("obtener_estadisticas")
    \/ EsOp("agregar_favorito")

\* the last call wrote rows
Escribio ==
    \/ EsGuardar /\ llamada.df # <<>>
    \/ EsOp("agregar_favorito") /\ \E p \in productos : p.id = args.producto_id

\* the last call ended with the result that its arguments give on the tables
\* of db_path
Completa ==
    /\ EsGuardar =>
           LET st == Guardar(antes.productos, antes.precios, antes.seq, llamada.df, llamada.ts)
           IN  productos = st.productos /\ precios = st.precios
    /\ EsOp("obtener_estadisticas") =>
           /\ error = ""
           /\ retorno.stats.total_productos = Cardinality(productos)
           /\ retorno.stats.total_registros_precios = Cardinality(precios)
    /\ EsOp("agregar_favorito") =>
           /\ error = ""
           /\ (\E p \in productos : p.id = args.producto_id)
                  => \E i \in 1..Len(favoritos) : favoritos[i].producto_id = args.producto_id

\* C30: after a call that asks for a cursor, whether or not cerrar() or a
\* lost connection came before it, self._conn is an open connection to
\* db_path, the cursor of the call belongs to it, the call ended with its
\* result, and a call that wrote committed on the connection of its cursor.
C30_Reconexion ==
    UsoCursor =>
        /\ conexion.estado = "abierta"
        /\ conexion.ruta = DbPath
        /\ conexion.cursor = conexion.id
        /\ Completa
        /\ conexion.commit \in {0, conexion.cursor}
        /\ Escribio => conexion.commit = conexion.cursor

\* a batch was stored and committed on the third connection of the manager,
\* after cerrar() and a lost connection
C30_Testigo ==
    /\ EsGuardar
    /\ llamada.df # <<>>
    /\ antes.productos # {}
    /\ productos # antes.productos
    /\ conexion.cierres = 2
    /\ conexion.id = 3
    /\ conexion.commit = 3

====
